---- MODULE Spec2Model ----
(***************************************************************************)
(* FinDashGPT backend: the SQLite observation store (class DB), its        *)
(* "latest row per key" snapshot queries, and the ingestors that write     *)
(* timestamped batches into it.                                            *)
(*                                                                         *)
(* The repository holds several revisions of the DB class.  Each revision  *)
(* of a query is a separate operator named after the place it lives in:    *)
(*   database.ts (= cron.ts:261-558 for the three shared tables, which     *)
(*     also adds positions and risk_measures, NOT NULL columns, upsert),   *)
(*   cron.ts:45-238 (nullable columns, table-wide MAX for markets and      *)
(*     economics, plain INSERT for positions),                             *)
(*   unnamed/part_003 (IFNULL comparison of pe_metrics.region).            *)
(*                                                                         *)
(* Conventions.  A table is the sequence of its rows in rowid order.       *)
(* Timestamps are ISO-8601 strings of fixed width produced by              *)
(* Date.toISOString(); SQLite compares them as text, which for that format *)
(* is the order of the instants, so a timestamp is modelled as the integer *)
(* clock reading it was formatted from.  SQL NULL is the string NULL for   *)
(* text columns and the empty tuple None for optional REAL columns (a      *)
(* present number n is <<n>>).  REAL values are integers in a fixed unit   *)
(* (market values in whole dollars, quotes in hundredths).                 *)
(*                                                                         *)
(* Binding.  A record field that is undefined or absent is stored as NULL  *)
(* where the column admits it; where the schema says NOT NULL the insert   *)
(* throws.  Besides, any insert of an ingestion run may throw (SpecIngest),*)
(* which covers a driver that rejects such a record and a busy or full     *)
(* database file.                                                          *)
(*                                                                         *)
(* Spec is the store under arbitrary insert calls; SpecIngest is the       *)
(* scheduled job updateAll, one run at a time and one insert per step,     *)
(* with the clock advancing between any two steps.  SpecRisk is            *)
(* computeRisk on positions a client wrote; SpecStore adds schema          *)
(* initialisation and the GET handlers to the insert calls; SpecAppend     *)
(* calls the store with records that lack a field; SpecOverlap is the      *)
(* scheduling of seed() and the updateAll() calls within one process, one  *)
(* synchronous stretch per step.  SpecCommentary is generateCommentary     *)
(* over snapshots of up to MaxQuotes quotes; SpecBucket is mapBucket on    *)
(* rows of a range of type texts; SpecDashboard is the refresh of the      *)
(* dashboard page (fetchData) over the answers its six requests can get.   *)
(***************************************************************************)
EXTENDS Integers, Sequences, FiniteSets, TLC

\* ---------------------------------------------------------------- bounds
\* number of DB insert calls a behaviour of Spec makes
MaxRows == 2
\* caller-supplied timestamps of Spec range over 1..MaxTime
MaxTime == 2

\* ------------------------------------------------------------ SQL values
NULL == "<null>"
None == << >>
Some(n) == << n >>
\* an omitted optional argument (category?: string)
Undefined == "<undefined>"

\* JavaScript truthiness of a string-or-undefined argument: if (category)
Truthy(s) == s # Undefined /\ s # ""

\* SQL three-valued logic
T3 == "true"
F3 == "false"
U3 == "unknown"
SqlEq(a, b) == IF a = NULL \/ b = NULL THEN U3 ELSE IF a = b THEN T3 ELSE F3
SqlIsNull(a) == IF a = NULL THEN T3 ELSE F3
SqlAnd(x, y) == IF x = F3 \/ y = F3 THEN F3 ELSE IF x = U3 \/ y = U3 THEN U3 ELSE T3
SqlOr(x, y) == IF x = T3 \/ y = T3 THEN T3 ELSE IF x = U3 \/ y = U3 THEN U3 ELSE F3
IFNULL(a, d) == IF a = NULL THEN d ELSE a
\* mutant: MIN in place of MAX
SqlMax_min(S) == {t \in S : \A u \in S : t <= u}

\* SELECT MAX(timestamp) over a set of timestamps: no value (NULL) when the
\* set is empty, so "timestamp = (SELECT MAX ...)" is membership in SqlMax
SqlMax(S) == {t \in S : \A u \in S : u <= t}

Rows(table) == {table[i] : i \in DOMAIN table}

\* ----------------------------------------------------------------- state
VARIABLES
  dbModule,       \* which revision of the DB class the process loaded
  markets,        \* table markets
  economics,      \* table economics
  pe_metrics,     \* table pe_metrics
  positions,      \* table positions
  calls,          \* number of insert calls made so far (Spec)
  lastCall,       \* the insert call Spec's client made last, and whether it threw
  lastPos,        \* per position id: payload of the last insertPosition call
  risk_measures,  \* table risk_measures
  clock,          \* the system clock, in ticks
  uuids,          \* number of identifiers uuidv4() has issued
  upd,            \* the ingestion run in progress: step, loop index, batch stamp
  runs,           \* number of ingestion runs started
  thrown,         \* the append of the current run that threw, if one did
  hist,           \* per ingestor: what each of its finished runs left behind
  addepar,        \* whether ADDEPAR_KEY, _SECRET and _VIEW_ID are all set
  tasks,          \* the async calls of one process (SpecOverlap): where each of
                  \* seed() and the updateAll() calls stands, and the queue of
                  \* continuations ready to resume
  home            \* the state of the dashboard page (component Home)

storeVars == <<dbModule, markets, economics, pe_metrics, positions, risk_measures>>
histVars == <<calls, lastCall, lastPos>>
ingestVars == <<clock, uuids, upd, runs, thrown, hist, addepar, tasks, home>>
vars == <<storeVars, histVars, ingestVars>>

ModFull == "cron.ts:261"
ModEarly == "cron.ts:45"
DbModules == {ModFull, ModEarly}

\* --------------------------------------------------------------- queries
\* mutant: one row per symbol, as a GROUP BY symbol would return (the tied
\* row of lowest rowid)
getLatestMarketQuotes_groupBy(category) ==
  LET latest(m) ==
        /\ m.timestamp \in SqlMax({m2.timestamp : m2 \in {r \in Rows(markets) : r.symbol = m.symbol}})
        /\ ~\E m2 \in Rows(markets) :
             m2.symbol = m.symbol /\ m2.timestamp = m.timestamp /\ m2.id < m.id
  IN IF Truthy(category)
       THEN SelectSeq(markets, LAMBDA m : latest(m) /\ m.category = category)
       ELSE SelectSeq(markets, latest)

\* mutant: the category filter inside the subquery, so that the latest row is
\* chosen among the rows of the category only
getLatestMarketQuotes_filterFirst(category) ==
  LET latest(m) ==
        m.timestamp \in SqlMax({m2.timestamp : m2 \in
             {r \in Rows(markets) : r.symbol = m.symbol
                                      /\ (Truthy(category) => r.category = category)}})
  IN IF Truthy(category)
       THEN SelectSeq(markets, LAMBDA m : latest(m) /\ m.category = category)
       ELSE SelectSeq(markets, latest)

\* database.ts:96-110 (= cron.ts:406-420, part_003:82-93): latest row per
\* symbol by correlated subquery; "AND category = ?" is appended to the outer
\* WHERE only when the argument is truthy
getLatestMarketQuotes(category) ==
  LET latest(m) ==
        m.timestamp \in SqlMax({m2.timestamp : m2 \in {r \in Rows(markets) : r.symbol = m.symbol}})
  IN IF Truthy(category)
       THEN SelectSeq(markets, LAMBDA m : latest(m) /\ m.category = category)
       ELSE SelectSeq(markets, latest)

\* cron.ts:196-207: the revision that compares with MAX(timestamp) of the
\* whole table
getLatestMarketQuotes_cron196(category) ==
  LET top == SqlMax({m.timestamp : m \in Rows(markets)})
  IN IF Truthy(category)
       THEN SelectSeq(markets, LAMBDA m : m.category = category /\ m.timestamp \in top)
       ELSE SelectSeq(markets, LAMBDA m : m.timestamp \in top)

\* database.ts:128-138: latest row per (indicator, country)
getLatestEconomicReleases ==
  LET latest(e) ==
        e.timestamp \in SqlMax({e2.timestamp : e2 \in
             {r \in Rows(economics) : r.indicator = e.indicator /\ r.country = e.country}})
  IN SelectSeq(economics, latest)

\* cron.ts:209-213: table-wide MAX(timestamp)
getLatestEconomicReleases_cron209 ==
  LET top == SqlMax({e.timestamp : e \in Rows(economics)})
  IN SelectSeq(economics, LAMBDA e : e.timestamp \in top)

\* database.ts:155-164 (= cron.ts:215-223, cron.ts:548-557): the WHERE clause
\* of the subquery, in SQL's three-valued logic
PEKeyMatch(p2, p) ==
  SqlAnd(SqlAnd(SqlEq(p2.metric, p.metric), SqlEq(p2.strategy, p.strategy)),
         SqlOr(SqlEq(p2.region, p.region),
               SqlAnd(SqlIsNull(p.region), SqlIsNull(p2.region))))

getLatestPEMetrics ==
  LET latest(p) ==
        p.timestamp \in SqlMax({p2.timestamp : p2 \in
             {r \in Rows(pe_metrics) : PEKeyMatch(r, p) = T3}})
  IN SelectSeq(pe_metrics, latest)

\* part_003:144-156: the revision comparing IFNULL(region, '')
PEKeyMatch_IFNULL(p2, p) ==
  SqlAnd(SqlAnd(SqlEq(p2.metric, p.metric), SqlEq(p2.strategy, p.strategy)),
         SqlEq(IFNULL(p2.region, ""), IFNULL(p.region, "")))

getLatestPEMetrics_IFNULL ==
  LET latest(p) ==
        p.timestamp \in SqlMax({p2.timestamp : p2 \in
             {r \in Rows(pe_metrics) : PEKeyMatch_IFNULL(r, p) = T3}})
  IN SelectSeq(pe_metrics, latest)

\* cron.ts:507-516 (= cron.ts:225-231): latest row per position id
getLatestPositions ==
  LET latest(p) ==
        p.timestamp \in SqlMax({p2.timestamp : p2 \in
             {r \in Rows(positions) : SqlEq(r.id, p.id) = T3}})
  IN SelectSeq(positions, latest)

\* ------------------------------------------------------- insert methods
\* AUTOINCREMENT rowid of the next row of a table that is never deleted from
NextRowId(table) == Len(table) + 1

\* mutant: the VALUES list binds @name to category and @category to name
insertMarketQuoteRow_swapped(record) ==
  Append(markets, [id |-> NextRowId(markets), category |-> record.name,
                   symbol |-> record.symbol, name |-> record.category,
                   value |-> record.value, timestamp |-> record.timestamp])

\* database.ts:77-89: INSERT INTO markets
insertMarketQuoteRow(record) ==
  Append(markets, [id |-> NextRowId(markets), category |-> record.category,
                   symbol |-> record.symbol, name |-> record.name,
                   value |-> record.value, timestamp |-> record.timestamp])

\* database.ts:112-126: INSERT INTO economics
insertEconomicReleaseRow(record) ==
  Append(economics, [id |-> NextRowId(economics), indicator |-> record.indicator,
                     country |-> record.country, value |-> record.value,
                     release_date |-> record.release_date, period |-> record.period,
                     surprise |-> record.surprise, timestamp |-> record.timestamp])

\* database.ts:140-153: INSERT INTO pe_metrics
insertPEMetricRow(record) ==
  Append(pe_metrics, [id |-> NextRowId(pe_metrics), metric |-> record.metric,
                      strategy |-> record.strategy, region |-> record.region,
                      value |-> record.value, period |-> record.period,
                      timestamp |-> record.timestamp])

\* a record field is bound as SQL NULL when the record has no such field or
\* its value is undefined/null; a text field that is undefined is held as
\* NULL, a numeric field that is undefined is left out of the record
TextColumns == {"id", "name", "asset_class", "bucket", "category", "symbol"}
IsNullBound(record, f) ==
  \/ f \notin DOMAIN record
  \/ f \in TextColumns /\ record[f] = NULL

\* cron.ts:314-329: the NOT NULL columns of positions in the revision that
\* upserts; id is TEXT PRIMARY KEY without NOT NULL, which in SQLite admits
\* NULL
PositionNotNullOK(record) ==
  \A f \in {"name", "asset_class", "market_value", "bucket", "timestamp"} :
    ~IsNullBound(record, f)

\* database.ts:36-43 (= cron.ts:277-286): every column of markets is NOT NULL
MarketNotNullOK(record) ==
  \A f \in {"category", "symbol", "name", "value", "timestamp"} :
    ~IsNullBound(record, f)

\* a stored row conflicts on id; NULL equals no id, NULL included
HasPosition(id) == \E i \in DOMAIN positions : SqlEq(positions[i].id, id) = T3

\* cron.ts:470-501: INSERT ... ON CONFLICT(id) DO UPDATE SET every payload
\* column and the timestamp; a constraint failure throws and writes nothing
upsertPosition(record) ==
  IF ~PositionNotNullOK(record)
    THEN [threw |-> TRUE, table |-> positions]
    ELSE IF HasPosition(record.id)
      THEN [threw |-> FALSE,
            table |-> [i \in DOMAIN positions |->
                         IF positions[i].id = record.id THEN record ELSE positions[i]]]
      ELSE [threw |-> FALSE, table |-> Append(positions, record)]

\* cron.ts:157-176 with the schema of cron.ts:83-96: plain INSERT into a table
\* whose id is the PRIMARY KEY and whose other columns are nullable; a second
\* row with a stored id violates the key and throws
plainInsertPosition(record) ==
  IF HasPosition(record.id)
    THEN [threw |-> TRUE, table |-> positions]
    ELSE [threw |-> FALSE, table |-> Append(positions, record)]

\* database.ts:77-89 with its schema: a constraint failure throws and writes
\* nothing; the columns of cron.ts:54-61 are nullable
dbInsertMarketQuote(record) ==
  IF dbModule = ModFull /\ ~MarketNotNullOK(record)
    THEN [threw |-> TRUE, table |-> markets]
    ELSE [threw |-> FALSE, table |-> insertMarketQuoteRow(record)]

\* db.insertPosition of the loaded DB class
dbInsertPosition(record) ==
  IF dbModule = ModFull THEN upsertPosition(record) ELSE plainInsertPosition(record)

\* ------------------------------------------------ the store API (Spec)
Timestamps == 1..MaxTime
Symbols == {"SPX", "NDX"}
Categories == {"equities", "rates"}
MarketRecords ==
  [category : Categories, symbol : Symbols, name : {"Index"},
   value : {450025, 455000}, timestamp : Timestamps]
EconomicRecords ==
  [indicator : {"CPI", "PMI"}, country : {"US", "EZ"}, value : {310, 280},
   release_date : {"2025-07-31"}, period : {"Jun 2025"}, surprise : {None},
   timestamp : Timestamps]
Regions == {NULL, "", "Global"}
PERecords ==
  [metric : {"Dry Powder"}, strategy : {"Buyout"}, region : Regions,
   value : {1500, 1600}, period : {"Q2 2025"}, timestamp : Timestamps]
PositionIds == {"p1", "p2"}
PositionRecords ==
  [id : PositionIds, name : {"Fund"}, asset_class : {"equity"},
   market_value : {100, 200}, ytd_dollar : {None}, ytd_percent : {None},
   irr : {None}, tvpi : {None}, nav_percent : {None}, nav_target : {None},
   bucket : {"Liquid - Equities"}, timestamp : Timestamps]

NoCall == [op |-> "none"]
\* no ingestion run in progress / no append has thrown
IdleRun ==
  [pc |-> "idle", phase |-> "call", i |-> 0, now |-> 0, first |-> 0,
   last |-> 0, before |-> << >>, src |-> "none", fn |-> "none", apiStored |-> 0]
NoThrow == [fn |-> "none", k |-> 0, now |-> 0, before |-> << >>]
Ingestors == {"fetchMarkets", "fetchEconomic", "fetchPrivateEquity", "fetchPortfolio"}

\* the async calls a process makes: seed() (server.ts:23), updateAll() at
\* start-up (cron.ts:36) and updateAll() from a cron trigger (cron.ts:33)
TaskNames == {"seed", "startup", "cron"}
NoTasks == [pc |-> [t \in TaskNames |-> "notStarted"], queue |-> << >>]

\* index.tsx:77-87: the useState initial values of Home
InitialHome ==
  [markets |-> << >>, economics |-> << >>, peMetrics |-> << >>, commentary |-> NULL,
   positions |-> << >>, risk |-> << >>, lastUpdate |-> None]

Init ==
  /\ dbModule \in DbModules
  /\ markets = << >>
  /\ economics = << >>
  /\ pe_metrics = << >>
  /\ positions = << >>
  /\ risk_measures = << >>
  /\ calls = 0
  /\ lastCall = NoCall
  /\ lastPos = [id \in PositionIds |-> << >>]
  /\ clock = 1
  /\ uuids = 0
  /\ upd = IdleRun
  /\ runs = 0
  /\ thrown = NoThrow
  /\ hist = [f \in Ingestors |-> << >>]
  /\ addepar \in BOOLEAN
  /\ tasks = NoTasks
  /\ home = InitialHome

\* database.ts:77-89
insertMarketQuote(record) ==
  /\ calls < MaxRows
  /\ LET res == dbInsertMarketQuote(record)
     IN /\ markets' = res.table
        /\ lastCall' = [op |-> "insertMarketQuote", record |-> record, threw |-> res.threw]
  /\ calls' = calls + 1
  /\ UNCHANGED <<dbModule, economics, pe_metrics, positions, risk_measures, lastPos, ingestVars>>

\* database.ts:112-126
insertEconomicRelease(record) ==
  /\ calls < MaxRows
  /\ economics' = insertEconomicReleaseRow(record)
  /\ calls' = calls + 1
  /\ lastCall' = [op |-> "insertEconomicRelease", record |-> record, threw |-> FALSE]
  /\ UNCHANGED <<dbModule, markets, pe_metrics, positions, risk_measures, lastPos, ingestVars>>

\* database.ts:140-153
insertPEMetric(record) ==
  /\ calls < MaxRows
  /\ pe_metrics' = insertPEMetricRow(record)
  /\ calls' = calls + 1
  /\ lastCall' = [op |-> "insertPEMetric", record |-> record, threw |-> FALSE]
  /\ UNCHANGED <<dbModule, markets, economics, positions, risk_measures, lastPos, ingestVars>>

\* cron.ts:470-501, or cron.ts:157-176 in the revision without the upsert
insertPosition(record) ==
  /\ calls < MaxRows
  /\ LET res == dbInsertPosition(record)
     IN /\ positions' = res.table
        /\ lastCall' = [op |-> "insertPosition", record |-> record, threw |-> res.threw]
  /\ calls' = calls + 1
  /\ lastPos' = [lastPos EXCEPT ![record.id] = <<record>>]
  /\ UNCHANGED <<dbModule, markets, economics, pe_metrics, risk_measures, ingestVars>>

Next ==
  \/ \E record \in MarketRecords : insertMarketQuote(record)
  \/ \E record \in EconomicRecords : insertEconomicRelease(record)
  \/ \E record \in PERecords : insertPEMetric(record)
  \/ \E record \in PositionRecords : insertPosition(record)

Spec == Init /\ [][Next]_vars

\* ---------------------------------------------- keys of the data model
SameMarketKey(a, b) == a.symbol = b.symbol
SameEconomicKey(a, b) == a.indicator = b.indicator /\ a.country = b.country
\* region-or-null: two nulls are the same key, null differs from every string
SamePEKey(a, b) == a.metric = b.metric /\ a.strategy = b.strategy /\ a.region = b.region
SamePositionKey(a, b) == a.id = b.id

\* a table and a snapshot of it, with the key relation of the domain
Covered(table, snap, SameKey(_, _)) ==
  \A x \in Rows(table) : \E r \in Rows(snap) : SameKey(r, x)
NoneNewer(table, snap, SameKey(_, _)) ==
  \A r \in Rows(snap) : ~\E x \in Rows(table) : SameKey(x, r) /\ x.timestamp > r.timestamp
\* the rows of a table that carry the greatest timestamp of their key
TopRows(table, SameKey(_, _)) ==
  {x \in Rows(table) : \A y \in Rows(table) : SameKey(y, x) => y.timestamp <= x.timestamp}
ExactlyTopRows(table, snap, SameKey(_, _)) ==
  /\ Rows(snap) = TopRows(table, SameKey)
  /\ Len(snap) = Cardinality(Rows(snap))

\* ------------------------------------------------------------------- C1
\* C1: after any sequence of appends, the snapshot of markets, economics and
\* pe_metrics holds a row for every key that has a stored row, in each
\* revision of the queries (database.ts and cron.ts:196-213).
C1_EveryKeyInSnapshot ==
  /\ Covered(markets, getLatestMarketQuotes(Undefined), SameMarketKey)
  /\ Covered(economics, getLatestEconomicReleases, SameEconomicKey)
  /\ Covered(pe_metrics, getLatestPEMetrics, SamePEKey)
  /\ Covered(markets, getLatestMarketQuotes_cron196(Undefined), SameMarketKey)
  /\ Covered(economics, getLatestEconomicReleases_cron209, SameEconomicKey)

\* the same statement for the per-key queries of database.ts alone
C1_EveryKeyInSnapshot_database ==
  /\ Covered(markets, getLatestMarketQuotes(Undefined), SameMarketKey)
  /\ Covered(economics, getLatestEconomicReleases, SameEconomicKey)
  /\ Covered(pe_metrics, getLatestPEMetrics, SamePEKey)

\* ------------------------------------------------------------------- C2
\* C2: in every domain, no row a snapshot query returns has a stored row of
\* the same key with a strictly greater timestamp.
C2_NoNewerRowOfSameKey ==
  /\ NoneNewer(markets, getLatestMarketQuotes(Undefined), SameMarketKey)
  /\ NoneNewer(markets, getLatestMarketQuotes_cron196(Undefined), SameMarketKey)
  /\ NoneNewer(economics, getLatestEconomicReleases, SameEconomicKey)
  /\ NoneNewer(economics, getLatestEconomicReleases_cron209, SameEconomicKey)
  /\ NoneNewer(pe_metrics, getLatestPEMetrics, SamePEKey)
  /\ NoneNewer(pe_metrics, getLatestPEMetrics_IFNULL, SamePEKey)
  /\ NoneNewer(positions, getLatestPositions, SamePositionKey)

\* a symbol has an older and a newer stored row and the snapshot returns one
\* row, the newer
C2_Witness ==
  /\ \E a, b \in Rows(markets) : SameMarketKey(a, b) /\ a.timestamp < b.timestamp
  /\ Len(getLatestMarketQuotes(Undefined)) = 1

\* ------------------------------------------------------------------- C3
\* C3: in every domain the snapshot holds, for each key, exactly the stored
\* rows that carry the greatest timestamp of the key, each once: one row when
\* a single row carries it, every tied row when several do.
C3_OneRowPerKeyOrAllTies ==
  /\ ExactlyTopRows(markets, getLatestMarketQuotes(Undefined), SameMarketKey)
  /\ ExactlyTopRows(economics, getLatestEconomicReleases, SameEconomicKey)
  /\ ExactlyTopRows(pe_metrics, getLatestPEMetrics, SamePEKey)
  /\ ExactlyTopRows(positions, getLatestPositions, SamePositionKey)

\* two stored rows of one symbol share its greatest timestamp and both are
\* returned
C3_Witness ==
  \E a, b \in Rows(getLatestMarketQuotes(Undefined)) :
    a.id # b.id /\ SameMarketKey(a, b) /\ a.timestamp = b.timestamp

\* ------------------------------------------------------------------- C4
\* C4: insertPosition with a stored id replaces the row instead of adding
\* one or failing: the table, and getLatestPositions, hold exactly one row
\* per id for which insertPosition was called, carrying the payload of the
\* last call for that id, and no call fails.
C4_InsertPositionReplaces ==
  /\ lastCall.op = "insertPosition" => ~lastCall.threw
  /\ \A id \in PositionIds :
       lastPos[id] # << >> =>
         /\ Cardinality({i \in DOMAIN positions : positions[i].id = id}) = 1
         /\ \A i \in DOMAIN positions : positions[i].id = id => positions[i] = lastPos[id][1]
         /\ \E r \in Rows(getLatestPositions) : r = lastPos[id][1]

\* the same statement for the upsert of cron.ts:470-501 alone
C4_InsertPositionReplaces_upsert == dbModule = ModFull => C4_InsertPositionReplaces

\* ------------------------------------------------------------------- C5
\* C5: in getLatestPEMetrics (database.ts and the IFNULL revision) a stored
\* row is returned exactly when no stored row with the same metric, the same
\* strategy and the same region-or-null is newer: null matches null only, and
\* never 'Global' or the empty string.
PENewestOfKey(snap) ==
  \A p \in Rows(pe_metrics) :
    (p \in Rows(snap)) <=>
      ~\E p2 \in Rows(pe_metrics) : SamePEKey(p2, p) /\ p2.timestamp > p.timestamp

C5_NullRegionIsItsOwnKey ==
  /\ PENewestOfKey(getLatestPEMetrics)
  /\ PENewestOfKey(getLatestPEMetrics_IFNULL)

\* the same statement for database.ts:155-164 alone
C5_NullRegionIsItsOwnKey_database == PENewestOfKey(getLatestPEMetrics)

\* ------------------------------------------------------------------- C6
QueryCategories == Categories \cup {"fx", ""}
FilterByCategory(snap, c) == SelectSeq(snap, LAMBDA m : m.category = c)

\* C6 as stated: for every category argument c, getLatestMarketQuotes(c) is
\* the rows of getLatestMarketQuotes() whose category is c.
C6_FilterAfterSelection_AnyArgument ==
  \A c \in QueryCategories :
    getLatestMarketQuotes(c) = FilterByCategory(getLatestMarketQuotes(Undefined), c)

\* C6 amended: for every non-empty category c, getLatestMarketQuotes(c) is
\* the rows of getLatestMarketQuotes() whose category is c (the filter is
\* applied after the latest row per symbol is chosen); the empty string is
\* treated as no argument and returns the whole snapshot.  Both revisions.
C6_FilterAfterSelection ==
  /\ \A c \in QueryCategories \ {""} :
       /\ getLatestMarketQuotes(c) = FilterByCategory(getLatestMarketQuotes(Undefined), c)
       /\ getLatestMarketQuotes_cron196(c)
            = FilterByCategory(getLatestMarketQuotes_cron196(Undefined), c)
  /\ getLatestMarketQuotes("") = getLatestMarketQuotes(Undefined)
  /\ getLatestMarketQuotes_cron196("") = getLatestMarketQuotes_cron196(Undefined)

\* a symbol whose newest row left category c still has an older row of
\* category c, and the query for c returns no row of the symbol
C6_Witness ==
  \E c \in Categories : \E a, b \in Rows(markets) :
    /\ SameMarketKey(a, b) /\ a.timestamp < b.timestamp
    /\ a.category = c /\ b.category # c
    /\ ~\E r \in Rows(getLatestMarketQuotes(c)) : SameMarketKey(r, a)

\* ------------------------------------------------------------------- C7
MarketPayload(r) == <<r.category, r.name, r.value>>
EconomicPayload(r) == <<r.value, r.release_date, r.period, r.surprise>>
PEPayload(r) == <<r.value, r.period>>

\* the snapshot, read right after the last insert call, has a row with the
\* key, the payload and the timestamp of the inserted record
ReadsLastWrite ==
  LET rec == lastCall.record
  IN CASE lastCall.op = "insertMarketQuote" ->
            \E r \in Rows(getLatestMarketQuotes(Undefined)) :
              SameMarketKey(r, rec) /\ MarketPayload(r) = MarketPayload(rec)
                /\ r.timestamp = rec.timestamp
       [] lastCall.op = "insertEconomicRelease" ->
            \E r \in Rows(getLatestEconomicReleases) :
              SameEconomicKey(r, rec) /\ EconomicPayload(r) = EconomicPayload(rec)
                /\ r.timestamp = rec.timestamp
       [] lastCall.op = "insertPEMetric" ->
            \E r \in Rows(getLatestPEMetrics) :
              SamePEKey(r, rec) /\ PEPayload(r) = PEPayload(rec)
                /\ r.timestamp = rec.timestamp
       [] lastCall.op = "insertPosition" ->
            \E r \in Rows(getLatestPositions) : r = rec
       [] OTHER -> TRUE

\* the stored rows of the record's key, in the table the last call wrote
NotOlderThanStored ==
  LET rec == lastCall.record
  IN CASE lastCall.op = "insertMarketQuote" ->
            \A x \in Rows(markets) : SameMarketKey(x, rec) => x.timestamp <= rec.timestamp
       [] lastCall.op = "insertEconomicRelease" ->
            \A x \in Rows(economics) : SameEconomicKey(x, rec) => x.timestamp <= rec.timestamp
       [] lastCall.op = "insertPEMetric" ->
            \A x \in Rows(pe_metrics) : SamePEKey(x, rec) => x.timestamp <= rec.timestamp
       [] OTHER -> TRUE

Appended == lastCall.op # "none" /\ ~lastCall.threw

\* C7 as stated: whatever the store held and whatever timestamp the caller
\* supplied, the snapshot read right after an append holds the appended
\* record.
C7_ReadYourWrites_AnyTimestamp == Appended => ReadsLastWrite

\* C7 amended: the snapshot read right after an append holds the appended
\* record provided its timestamp is not older than the newest stored row of
\* its key; for a position, which is upserted by id, with any timestamp.
C7_ReadYourWrites == (Appended /\ NotOlderThanStored) => ReadsLastWrite

\* the last append wrote a key that already had an older row with another
\* payload, and the snapshot returns the appended record
C7_Witness ==
  /\ lastCall.op = "insertMarketQuote"
  /\ \E x \in Rows(markets) :
       /\ SameMarketKey(x, lastCall.record)
       /\ x.timestamp < lastCall.record.timestamp
       /\ MarketPayload(x) # MarketPayload(lastCall.record)
  /\ ReadsLastWrite

\* ====================================================== scheduled ingestion
\* cron.ts:14-31 runs the ingestors one after the other.  Amounts are kept
\* as integers: market values and economic values in hundredths, PE values
\* in tenths.
MaxClock == 3
MaxRuns == 2
MaxBatch == 3

Min(a, b) == IF a <= b THEN a ELSE b
\* the records of a list that a run of the model ingests
Batch(list) == SubSeq(list, 1, Min(MaxBatch, Len(list)))

\* fetchMarkets.ts:18-45
sampleData == <<
  [category |-> "equities", symbol |-> "SPX", name |-> "S&P 500", value |-> 450025],
  [category |-> "equities", symbol |-> "NDX", name |-> "Nasdaq 100", value |-> 1540085],
  [category |-> "equities", symbol |-> "SX5E", name |-> "EURO STOXX 50", value |-> 420055],
  [category |-> "equities", symbol |-> "NKY", name |-> "Nikkei 225", value |-> 3300075],
  [category |-> "rates", symbol |-> "US2Y", name |-> "UST 2yr", value |-> 450],
  [category |-> "rates", symbol |-> "US10Y", name |-> "UST 10yr", value |-> 420],
  [category |-> "rates", symbol |-> "US30Y", name |-> "UST 30yr", value |-> 410],
  [category |-> "rates", symbol |-> "DE10Y", name |-> "German Bund 10yr", value |-> 255],
  [category |-> "rates", symbol |-> "IGSpread", name |-> "IG Credit Spread", value |-> 125],
  [category |-> "rates", symbol |-> "HYSpread", name |-> "HY Credit Spread", value |-> 475],
  [category |-> "commodities", symbol |-> "Brent", name |-> "Brent Crude", value |-> 8550],
  [category |-> "commodities", symbol |-> "WTI", name |-> "WTI Crude", value |-> 8130],
  [category |-> "commodities", symbol |-> "Gold", name |-> "Gold", value |-> 195000],
  [category |-> "commodities", symbol |-> "Copper", name |-> "Copper", value |-> 450],
  [category |-> "fx", symbol |-> "DXY", name |-> "US Dollar Index", value |-> 10250],
  [category |-> "fx", symbol |-> "EURUSD", name |-> "EUR/USD", value |-> 110],
  [category |-> "fx", symbol |-> "JPYUSD", name |-> "USD/JPY", value |-> 14550],
  [category |-> "fx", symbol |-> "GBPUSD", name |-> "GBP/USD", value |-> 129],
  [category |-> "fx", symbol |-> "AUDUSD", name |-> "AUD/USD", value |-> 67],
  [category |-> "crypto", symbol |-> "BTCUSD", name |-> "Bitcoin", value |-> 5800000],
  [category |-> "crypto", symbol |-> "ETHUSD", name |-> "Ethereum", value |-> 380000] >>

\* one literal of fetchEconomic.ts:19-41; surprise is a number or null
EconRow(indicator, country, value, release_date, period, surprise) ==
  [indicator |-> indicator, country |-> country, value |-> value,
   release_date |-> release_date, period |-> period, surprise |-> surprise]

\* fetchEconomic.ts:17-42 (null is written None here)
data == <<
  EconRow("CPI", "US", 310, "2025-07-31", "Jun 2025", Some(-10)),
  EconRow("PPI", "US", 250, "2025-07-31", "Jun 2025", Some(20)),
  EconRow("Payrolls", "US", 23000, "2025-07-05", "Jun 2025", Some(-1000)),
  EconRow("PMI", "US", 5010, "2025-07-25", "Jul 2025", Some(-150)),
  EconRow("Retail Sales", "US", 50, "2025-07-15", "Jun 2025", Some(10)),
  EconRow("CPI", "EZ", 280, "2025-07-31", "Jun 2025", Some(0)),
  EconRow("PPI", "EZ", 190, "2025-07-31", "Jun 2025", Some(-30)),
  EconRow("Payrolls", "EZ", 15000, "2025-07-05", "Jun 2025", Some(500)),
  EconRow("PMI", "EZ", 4900, "2025-07-25", "Jul 2025", Some(-80)),
  EconRow("Retail Sales", "EZ", 20, "2025-07-15", "Jun 2025", Some(-10)),
  EconRow("CPI", "CN", 120, "2025-07-31", "Jun 2025", Some(10)),
  EconRow("PPI", "CN", -200, "2025-07-31", "Jun 2025", Some(-20)),
  EconRow("Payrolls", "CN", 7000, "2025-07-05", "Jun 2025", Some(-300)),
  EconRow("PMI", "CN", 5100, "2025-07-25", "Jul 2025", Some(50)),
  EconRow("Retail Sales", "CN", 350, "2025-07-15", "Jun 2025", Some(30)),
  EconRow("CESI", "US", -2000, "2025-08-05", "Aug 2025", None),
  EconRow("CESI", "EZ", -500, "2025-08-05", "Aug 2025", None),
  EconRow("CESI", "CN", 1500, "2025-08-05", "Aug 2025", None),
  EconRow("RecessionProb", "US", 25, "2025-08-05", "next 12m", None) >>

\* fetchPrivateEquity.ts:21-88
metrics == <<
  [strategy |-> "Buyout", capitalRaised |-> 250, dryPowder |-> 1500, dealCount |-> 1200,
   medianPPM_NA |-> 110, medianPPM_EU |-> 105, leverageMultiple_NA |-> 60,
   leverageMultiple_EU |-> 55, ilpaScore |-> 850],
  [strategy |-> "Growth", capitalRaised |-> 100, dryPowder |-> 600, dealCount |-> 900,
   medianPPM_NA |-> 90, medianPPM_EU |-> 85, leverageMultiple_NA |-> 45,
   leverageMultiple_EU |-> 42, ilpaScore |-> 800],
  [strategy |-> "Venture", capitalRaised |-> 150, dryPowder |-> 700, dealCount |-> 3000,
   medianPPM_NA |-> 120, medianPPM_EU |-> 110, leverageMultiple_NA |-> 0,
   leverageMultiple_EU |-> 0, ilpaScore |-> 750],
  [strategy |-> "Distressed", capitalRaised |-> 50, dryPowder |-> 400, dealCount |-> 300,
   medianPPM_NA |-> 70, medianPPM_EU |-> 65, leverageMultiple_NA |-> 35,
   leverageMultiple_EU |-> 30, ilpaScore |-> 700],
  [strategy |-> "Infrastructure", capitalRaised |-> 80, dryPowder |-> 500, dealCount |-> 400,
   medianPPM_NA |-> 100, medianPPM_EU |-> 95, leverageMultiple_NA |-> 50,
   leverageMultiple_EU |-> 48, ilpaScore |-> 780],
  [strategy |-> "Real Estate", capitalRaised |-> 120, dryPowder |-> 650, dealCount |-> 700,
   medianPPM_NA |-> 85, medianPPM_EU |-> 80, leverageMultiple_NA |-> 55,
   leverageMultiple_EU |-> 50, ilpaScore |-> 820] >>

\* fetchPrivateEquity.ts:104-115
leagueTable == <<
  [rank |-> 1, name |-> "GP Alpha", commitments |-> 150],
  [rank |-> 2, name |-> "GP Beta", commitments |-> 120],
  [rank |-> 3, name |-> "GP Gamma", commitments |-> 100],
  [rank |-> 4, name |-> "GP Delta", commitments |-> 80],
  [rank |-> 5, name |-> "GP Epsilon", commitments |-> 70],
  [rank |-> 6, name |-> "GP Zeta", commitments |-> 65],
  [rank |-> 7, name |-> "GP Eta", commitments |-> 60],
  [rank |-> 8, name |-> "GP Theta", commitments |-> 55],
  [rank |-> 9, name |-> "GP Iota", commitments |-> 50],
  [rank |-> 10, name |-> "GP Kappa", commitments |-> 48] >>

PERec(metric, strategy, region, value, period) ==
  [metric |-> metric, strategy |-> strategy, region |-> region, value |-> value,
   period |-> period]

\* fetchPrivateEquity.ts:90-97: the eight inserts made for one row of metrics
MetricInserts(row) == <<
  PERec("Capital Raised", row.strategy, "Global", row.capitalRaised, "Q2 2025"),
  PERec("Dry Powder", row.strategy, "Global", row.dryPowder, "Q2 2025"),
  PERec("Deal Count", row.strategy, "Global", row.dealCount, "Q2 2025"),
  PERec("Median Purchase Price Multiple", row.strategy, "North America", row.medianPPM_NA, "Q2 2025"),
  PERec("Median Purchase Price Multiple", row.strategy, "Europe", row.medianPPM_EU, "Q2 2025"),
  PERec("Leverage Multiple", row.strategy, "North America", row.leverageMultiple_NA, "Q2 2025"),
  PERec("Leverage Multiple", row.strategy, "Europe", row.leverageMultiple_EU, "Q2 2025"),
  PERec("ILPA Score", row.strategy, "Global", row.ilpaScore, "2025") >>

\* fetchPrivateEquity.ts:117: the insert made for one entry of the league table
LeagueInsert(entry) ==
  PERec("League Table Rank " \o ToString(entry.rank) \o ": " \o entry.name,
        "All", "Global", entry.commitments, "2025 YTD")

RECURSIVE Flatten(_)
Flatten(seqs) == IF seqs = << >> THEN << >> ELSE Head(seqs) \o Flatten(Tail(seqs))

\* fetchPrivateEquity.ts:89-118: the inserts of one run, in program order
peInserts ==
  Flatten([i \in DOMAIN metrics |-> MetricInserts(metrics[i])])
    \o [i \in DOMAIN leagueTable |-> LeagueInsert(leagueTable[i])]

\* ------------------------------------------------- fetchPortfolio helpers
UpperChars == "ABCDEFGHIJKLMNOPQRSTUVWXYZ"
LowerChars == "abcdefghijklmnopqrstuvwxyz"
CharAt(s, i) == SubSeq(s, i, i)
LowerChar(c) ==
  IF \E i \in 1..Len(UpperChars) : CharAt(UpperChars, i) = c
    THEN CharAt(LowerChars, CHOOSE i \in 1..Len(UpperChars) : CharAt(UpperChars, i) = c)
    ELSE c
RECURSIVE toLowerCase(_)
toLowerCase(s) ==
  IF Len(s) = 0 THEN "" ELSE LowerChar(CharAt(s, 1)) \o toLowerCase(SubSeq(s, 2, Len(s)))

\* positions of s at which sub starts
Occurs(s, sub) == {i \in 1..(Len(s) - Len(sub) + 1) : SubSeq(s, i, i + Len(sub) - 1) = sub}
\* String.prototype.includes, and RegExp.test for a pattern without operators
Has(s, sub) == Occurs(s, sub) # {}
HasAny(s, subs) == \E sub \in subs : Has(s, sub)
\* /a.*b/.test(s)
HasThen(s, a, b) == \E i \in Occurs(s, a) : \E j \in Occurs(s, b) : j >= i + Len(a)

\* a || b on strings: the empty string and undefined are falsy
OrElse(a, b) == IF Truthy(a) THEN a ELSE b

\* fetchPortfolio.ts:96-109 ("-" stands for the en dash of the labels)
mapBucket(row) ==
  LET type == toLowerCase(OrElse(OrElse(row.type, row.Category), ""))
  IN IF HasAny(type, {"stock", "equity", "eafe", "em", "us"}) THEN "Liquid - Equities"
     ELSE IF HasAny(type, {"bond", "fixed", "ig", "hy", "em debt"}) THEN "Liquid - Fixed Income"
     ELSE IF HasAny(type, {"commodity", "gold", "oil"}) THEN "Liquid - Commodities"
     ELSE IF HasAny(type, {"crypto", "bitcoin", "ethereum"}) THEN "Liquid - Crypto"
     ELSE IF HasAny(type, {"cash", "money market"}) THEN "Liquid - Cash"
     ELSE IF HasThen(type, "private", "equity") THEN "Illiquid - Private Equity"
     ELSE IF HasAny(type, {"real assets", "real estate"}) THEN "Illiquid - Private Real Assets"
     ELSE IF Has(type, "credit") THEN "Illiquid - Private Credit"
     ELSE IF Has(type, "infrastructure") THEN "Illiquid - Infrastructure"
     ELSE IF Has(type, "co-invest") THEN "Illiquid - Co-Invests"
     ELSE "Other"

\* the rows the Addepar view returns (json.rows) and the rows of the sheet
\* 'Portfolio View' of data/portfolio.xlsx: the record source of
\* fetchPortfolio, the same at every run; a field a row lacks is Undefined
apiRows == <<
  [name |-> "Global Equity Fund", market_value |-> 100, type |-> "Equity", Category |-> Undefined],
  [name |-> "Direct Lending Fund", market_value |-> 200, type |-> "Private Credit", Category |-> Undefined],
  [name |-> "Treasury Bills", market_value |-> 50, type |-> "Cash", Category |-> Undefined],
  [name |-> "Toll Roads", market_value |-> 70, type |-> "Infrastructure", Category |-> Undefined] >>
fileRows == <<
  [Name |-> "Global Equity Fund", MarketValue |-> 100, type |-> Undefined, Category |-> "Equity"],
  [Name |-> "Direct Lending Fund", MarketValue |-> 200, type |-> Undefined, Category |-> "Private Credit"],
  [Name |-> "Treasury Bills", MarketValue |-> 50, type |-> Undefined, Category |-> "Cash"],
  [Name |-> "Toll Roads", MarketValue |-> 70, type |-> Undefined, Category |-> "Infrastructure"] >>

\* mapBucket(row) of each row of the two sources
apiBuckets == [i \in DOMAIN apiRows |-> mapBucket(apiRows[i])]
fileBuckets == [i \in DOMAIN fileRows |-> mapBucket(fileRows[i])]

\* uuidv4(): an identifier no earlier call returned
uuidv4 == "uuid-" \o ToString(uuids + 1)

\* fetchPortfolio.ts:44-56 and 74-86: the record built for one row.  It has
\* no asset_class; Number(x) || 0 of an absent field is 0 and the optional
\* ratios of an absent field are undefined
PositionOf(id, name, market_value, bucket, timestamp) ==
  [id |-> id, name |-> IF name = Undefined THEN NULL ELSE name, asset_class |-> NULL,
   market_value |-> market_value, ytd_dollar |-> Some(0), ytd_percent |-> Some(0),
   irr |-> None, tvpi |-> None, nav_percent |-> None, nav_target |-> None,
   bucket |-> bucket, timestamp |-> timestamp]

\* ------------------------------------------------- what a run left behind
KeyOf(fn, r) ==
  CASE fn = "fetchMarkets" -> <<r.symbol>>
    [] fn = "fetchEconomic" -> <<r.indicator, r.country>>
    [] fn = "fetchPrivateEquity" -> <<r.metric, r.strategy, r.region>>
    [] fn = "fetchPortfolio" -> <<r.id>>
PayloadOf(fn, r) ==
  CASE fn = "fetchMarkets" -> <<r.category, r.name, r.value>>
    [] fn = "fetchEconomic" -> <<r.value, r.release_date, r.period, r.surprise>>
    [] fn = "fetchPrivateEquity" -> <<r.value, r.period>>
    [] fn = "fetchPortfolio" -> <<r.name, r.asset_class, r.market_value, r.ytd_dollar,
                                  r.ytd_percent, r.irr, r.tvpi, r.nav_percent,
                                  r.nav_target, r.bucket>>
SnapshotOf(fn) ==
  CASE fn = "fetchMarkets" -> getLatestMarketQuotes(Undefined)
    [] fn = "fetchEconomic" -> getLatestEconomicReleases
    [] fn = "fetchPrivateEquity" -> getLatestPEMetrics
    [] fn = "fetchPortfolio" -> getLatestPositions
\* the record kept of a finished run of an ingestor: whether it returned,
\* the first and last timestamp it wrote with, its record source, and the
\* snapshot of its domain when it ended
RunEntry(fn, ok, first, last, src, snap) ==
  [ok |-> ok, first |-> first, last |-> last, src |-> src,
   content |-> {<<KeyOf(fn, r), PayloadOf(fn, r)>> : r \in Rows(snap)},
   count |-> Len(snap)]

\* ------------------------------------------------------ steps of a run
\* cron.ts:18-24: control reaches the call of fn
Enter(fn) == [IdleRun EXCEPT !.pc = fn, !.fn = fn]
\* fetchMarkets.ts:15, fetchEconomic.ts:15, fetchPrivateEquity.ts:17:
\* const now = new Date().toISOString(), read once before the loop
BeginLoop(table) ==
  [upd EXCEPT !.phase = "loop", !.i = 0, !.now = clock, !.first = clock,
              !.last = clock, !.before = table, !.src = "static"]
\* mutant: the loop body catches the error and goes on with the next record
AbortBatch_skip(k) == [upd EXCEPT !.i = k]
\* mutant: every step of updateAll has a try/catch of its own, so the run goes
\* on with the next step
AbortBatch_nextStep(k) ==
  Enter(CASE upd.fn = "fetchMarkets" -> "fetchEconomic"
          [] upd.fn = "fetchEconomic" -> "fetchPrivateEquity"
          [] upd.fn = "fetchPrivateEquity" -> "fetchPortfolio"
          [] OTHER -> "computeRisk")
\* the k-th insert of a loop throws: nothing in the ingestor catches it, so
\* the loop ends and the rejection reaches the catch of updateAll
AbortBatch(k) == [upd EXCEPT !.pc = "catch"]
ThrownAt(k) == [fn |-> upd.fn, k |-> k, now |-> upd.now, before |-> upd.before]

\* time passes
Tick ==
  /\ clock < MaxClock
  /\ clock' = clock + 1
  /\ UNCHANGED <<storeVars, histVars, uuids, upd, runs, thrown, hist, addepar, tasks, home>>

\* cron.ts:14-18, called by cron.schedule (line 33) and at start-up (line 36)
updateAll ==
  /\ upd.pc = "idle"
  /\ runs < MaxRuns
  /\ runs' = runs + 1
  /\ upd' = Enter("fetchMarkets")
  /\ thrown' = NoThrow
  /\ UNCHANGED <<storeVars, histVars, clock, uuids, hist, addepar, tasks, home>>

\* fetchMarkets.ts:14-49; an insert either stores its row or throws
fetchMarkets ==
  /\ upd.pc = "fetchMarkets"
  /\ \/ /\ upd.phase = "call"
        /\ upd' = BeginLoop(markets)
        /\ UNCHANGED <<markets, thrown, hist>>
     \/ /\ upd.phase = "loop"
        /\ LET record == [timestamp |-> upd.now] @@ Batch(sampleData)[upd.i + 1]
           IN \/ /\ markets' = insertMarketQuoteRow(record)
                 /\ thrown' = thrown
                 /\ IF upd.i + 1 = Len(Batch(sampleData))
                      THEN /\ upd' = Enter("fetchEconomic")
                           /\ hist' = [hist EXCEPT !["fetchMarkets"] =
                                 Append(@, RunEntry("fetchMarkets", TRUE, upd.now, upd.now,
                                                    upd.src, getLatestMarketQuotes(Undefined)'))]
                      ELSE /\ upd' = [upd EXCEPT !.i = @ + 1]
                           /\ hist' = hist
              \/ /\ upd' = AbortBatch(upd.i + 1)
                 /\ thrown' = ThrownAt(upd.i + 1)
                 /\ UNCHANGED <<markets, hist>>
  /\ UNCHANGED <<dbModule, economics, pe_metrics, positions, risk_measures, histVars,
                 clock, uuids, runs, addepar, tasks, home>>

\* fetchEconomic.ts:14-54; a null surprise is bound as undefined
fetchEconomic ==
  /\ upd.pc = "fetchEconomic"
  /\ \/ /\ upd.phase = "call"
        /\ upd' = BeginLoop(economics)
        /\ UNCHANGED <<economics, thrown, hist>>
     \/ /\ upd.phase = "loop"
        /\ LET row == Batch(data)[upd.i + 1]
               record == [indicator |-> row.indicator, country |-> row.country,
                          value |-> row.value, release_date |-> row.release_date,
                          period |-> row.period, surprise |-> row.surprise,
                          timestamp |-> upd.now]
           IN \/ /\ economics' = insertEconomicReleaseRow(record)
                 /\ thrown' = thrown
                 /\ IF upd.i + 1 = Len(Batch(data))
                      THEN /\ upd' = Enter("fetchPrivateEquity")
                           /\ hist' = [hist EXCEPT !["fetchEconomic"] =
                                 Append(@, RunEntry("fetchEconomic", TRUE, upd.now, upd.now,
                                                    upd.src, getLatestEconomicReleases'))]
                      ELSE /\ upd' = [upd EXCEPT !.i = @ + 1]
                           /\ hist' = hist
              \/ /\ upd' = AbortBatch(upd.i + 1)
                 /\ thrown' = ThrownAt(upd.i + 1)
                 /\ UNCHANGED <<economics, hist>>
  /\ UNCHANGED <<dbModule, markets, pe_metrics, positions, risk_measures, histVars,
                 clock, uuids, runs, addepar, tasks, home>>

\* fetchPrivateEquity.ts:16-119
fetchPrivateEquity ==
  /\ upd.pc = "fetchPrivateEquity"
  /\ \/ /\ upd.phase = "call"
        /\ upd' = BeginLoop(pe_metrics)
        /\ UNCHANGED <<pe_metrics, thrown, hist>>
     \/ /\ upd.phase = "loop"
        /\ LET record == [timestamp |-> upd.now] @@ Batch(peInserts)[upd.i + 1]
           IN \/ /\ pe_metrics' = insertPEMetricRow(record)
                 /\ thrown' = thrown
                 /\ IF upd.i + 1 = Len(Batch(peInserts))
                      THEN /\ upd' = Enter("fetchPortfolio")
                           /\ hist' = [hist EXCEPT !["fetchPrivateEquity"] =
                                 Append(@, RunEntry("fetchPrivateEquity", TRUE, upd.now, upd.now,
                                                    upd.src, getLatestPEMetrics'))]
                      ELSE /\ upd' = [upd EXCEPT !.i = @ + 1]
                           /\ hist' = hist
              \/ /\ upd' = AbortBatch(upd.i + 1)
                 /\ thrown' = ThrownAt(upd.i + 1)
                 /\ UNCHANGED <<pe_metrics, hist>>
  /\ UNCHANGED <<dbModule, markets, economics, positions, risk_measures, histVars,
                 clock, uuids, runs, addepar, tasks, home>>

\* fetchPortfolio.ts:59 and 89: the ingestor returns after its last row
ReturnFromPortfolio ==
  /\ upd' = Enter("computeRisk")
  /\ hist' = [hist EXCEPT !["fetchPortfolio"] =
        Append(@, RunEntry("fetchPortfolio", TRUE, upd.first, clock, upd.src,
                           getLatestPositions'))]

\* fetchPortfolio.ts:15-89.  Each row gets a fresh uuidv4() and its own
\* new Date().toISOString(); an error in the API branch is caught at line 62
\* and the file is read instead; an error in the file branch is not caught
fetchPortfolio ==
  /\ upd.pc = "fetchPortfolio"
  /\ \/ /\ upd.phase = "call"                                   \* lines 16-41
        /\ \/ /\ addepar                 \* the view answers with rows
              /\ upd' = [upd EXCEPT !.phase = "api", !.first = clock, !.last = clock,
                                    !.before = positions, !.src = "api"]
           \/ /\ addepar                 \* fetch rejects, !res.ok, or no rows array
              /\ upd' = [upd EXCEPT !.phase = "fallback", !.first = clock, !.src = "file"]
           \/ /\ ~addepar
              /\ upd' = [upd EXCEPT !.phase = "fallback", !.first = clock, !.src = "file"]
        /\ UNCHANGED <<positions, uuids, thrown, hist>>
     \/ /\ upd.phase = "api"                                    \* lines 42-59
        /\ LET row == Batch(apiRows)[upd.i + 1]
               record == PositionOf(uuidv4, row.name, row.market_value,
                                    apiBuckets[upd.i + 1], clock)
               res == dbInsertPosition(record)
           IN \/ /\ ~res.threw
                 /\ positions' = res.table
                 /\ thrown' = thrown
                 /\ IF upd.i + 1 = Len(Batch(apiRows))
                      THEN ReturnFromPortfolio
                      ELSE /\ upd' = [upd EXCEPT !.i = @ + 1, !.last = clock]
                           /\ hist' = hist
              \/ /\ upd' = [upd EXCEPT !.phase = "fallback", !.src = "api+file",   \* line 62
                                       !.apiStored = upd.i]
                 /\ UNCHANGED <<positions, thrown, hist>>
        /\ uuids' = uuids + 1
     \/ /\ upd.phase = "fallback"                               \* lines 68-70
        /\ \/ upd' = [upd EXCEPT !.phase = "file", !.i = 0, !.last = clock,
                                 !.before = positions]
           \/ upd' = [upd EXCEPT !.pc = "catch"]     \* XLSX.readFile throws
        /\ UNCHANGED <<positions, uuids, thrown, hist>>
     \/ /\ upd.phase = "file"                                   \* lines 72-88
        /\ LET row == Batch(fileRows)[upd.i + 1]
               record == PositionOf(uuidv4, row.Name, row.MarketValue,
                                    fileBuckets[upd.i + 1], clock)
               res == dbInsertPosition(record)
           IN \/ /\ ~res.threw
                 /\ positions' = res.table
                 /\ thrown' = thrown
                 /\ IF upd.i + 1 = Len(Batch(fileRows))
                      THEN ReturnFromPortfolio
                      ELSE /\ upd' = [upd EXCEPT !.i = @ + 1, !.last = clock]
                           /\ hist' = hist
              \/ /\ upd' = AbortBatch(upd.i + 1)
                 /\ thrown' = ThrownAt(upd.i + 1)
                 /\ UNCHANGED <<positions, hist>>
        /\ uuids' = uuids + 1
  /\ UNCHANGED <<dbModule, markets, economics, pe_metrics, risk_measures, histVars,
                 clock, runs, addepar, tasks, home>>

\* ------------------------------------------------------------ computeRisk
TicksPerDay == 2
\* new Date().toISOString().substring(0, 10): the day a clock reading is in
DateOf(t) == t \div TicksPerDay

\* computeRisk.ts:20, 25, 28 as integers: z-score in 1/10000, the two
\* volatilities and the stress move in percent
zScore == 23263
sigmaIlliquid == 15
sigmaLiquid == 10
stressMove == -5

\* the labels mapBucket returns, and bucket.toLowerCase().includes('illiquid')
\* (computeRisk.ts:24) of each of them
BucketLabels ==
  {"Liquid - Equities", "Liquid - Fixed Income", "Liquid - Commodities",
   "Liquid - Crypto", "Liquid - Cash", "Illiquid - Private Equity",
   "Illiquid - Private Real Assets", "Illiquid - Private Credit",
   "Illiquid - Infrastructure", "Illiquid - Co-Invests", "Other"}
illiquidLabels == {b \in BucketLabels : Has(toLowerCase(b), "illiquid")}
isIlliquid(bucket) ==
  IF bucket \in BucketLabels THEN bucket \in illiquidLabels
  ELSE Has(toLowerCase(bucket), "illiquid")

\* the property name a bucket value becomes in the object 'buckets'
BucketKey(p) == IF p.bucket = NULL THEN "null" ELSE p.bucket
\* computeRisk.ts:14-17: the keys of 'buckets' in insertion order
RECURSIVE BucketOrder(_)
BucketOrder(snap) ==
  IF snap = << >> THEN << >>
  ELSE LET rest == BucketOrder(SubSeq(snap, 1, Len(snap) - 1))
           b == BucketKey(snap[Len(snap)])
       IN IF \E i \in DOMAIN rest : rest[i] = b THEN rest ELSE Append(rest, b)
\* computeRisk.ts:14-17: the market value summed per bucket
RECURSIVE BucketValue(_, _)
BucketValue(snap, b) ==
  IF snap = << >> THEN 0
  ELSE (IF BucketKey(Head(snap)) = b THEN Head(snap).market_value ELSE 0)
         + BucketValue(Tail(snap), b)

\* mutant: the volatility of a liquid bucket for every bucket
RiskMeasureOf_oneSigma(snap, j) ==
  LET bucket == BucketOrder(snap)[j]
      value == BucketValue(snap, bucket)
  IN [id |-> "uuid-" \o ToString(uuids + j), as_of_date |-> DateOf(clock),
      bucket |-> bucket, var_99 |-> Some(value * zScore * sigmaLiquid),
      stress_pl |-> Some(value * stressMove),
      scenario |-> "{\"rates\":100,\"equities\":-2,\"oil\":20}", timestamp |-> clock]

\* computeRisk.ts:22-41: the measure of the j-th bucket; var_99 is in
\* millionths and stress_pl in hundredths of the unit of market_value
RiskMeasureOf(snap, j) ==
  LET bucket == BucketOrder(snap)[j]
      value == BucketValue(snap, bucket)
      sigma == IF isIlliquid(bucket) THEN sigmaIlliquid ELSE sigmaLiquid
  IN [id |-> "uuid-" \o ToString(uuids + j), as_of_date |-> DateOf(clock),
      bucket |-> bucket, var_99 |-> Some(value * zScore * sigma),
      stress_pl |-> Some(value * stressMove),
      scenario |-> "{\"rates\":100,\"equities\":-2,\"oil\":20}", timestamp |-> clock]

\* computeRisk.ts:12-43 with insertRiskMeasure (cron.ts:521-535), then
\* cron.ts:26; the n+1-st insert may throw, leaving the n rows before it
computeRisk ==
  /\ upd.pc = "computeRisk"
  /\ LET snap == getLatestPositions
         all == [j \in DOMAIN BucketOrder(snap) |-> RiskMeasureOf(snap, j)]
     IN \E n \in 0..Len(all) :
          /\ risk_measures' = risk_measures \o SubSeq(all, 1, n)
          /\ uuids' = uuids + Min(n + 1, Len(all))
          /\ upd' = IF n = Len(all) THEN IdleRun ELSE [upd EXCEPT !.pc = "catch"]
  /\ UNCHANGED <<dbModule, markets, economics, pe_metrics, positions, histVars,
                 clock, runs, thrown, hist, addepar, tasks, home>>

\* mutant: updateAll has no try/catch, its promise rejects and the run is
\* never cleared
updateAllCatch_rethrow ==
  /\ upd.pc = "catch"
  /\ upd' = [upd EXCEPT !.pc = "rejected"]
  /\ UNCHANGED <<storeVars, histVars, clock, uuids, runs, thrown, hist, addepar, tasks, home>>

\* cron.ts:27-30: the error of a run is logged and the run ends
updateAllCatch ==
  /\ upd.pc = "catch"
  /\ upd' = IdleRun
  /\ hist' = IF upd.fn \in Ingestors
               THEN [hist EXCEPT ![upd.fn] =
                       Append(@, RunEntry(upd.fn, FALSE, upd.first, upd.last, upd.src,
                                          SnapshotOf(upd.fn)))]
               ELSE hist
  /\ UNCHANGED <<storeVars, histVars, clock, uuids, runs, thrown, addepar, tasks, home>>

NextIngest ==
  \/ Tick
  \/ updateAll
  \/ fetchMarkets
  \/ fetchEconomic
  \/ fetchPrivateEquity
  \/ fetchPortfolio
  \/ computeRisk
  \/ updateAllCatch

SpecIngest == Init /\ [][NextIngest]_vars

\* ------------------------------------------------------- ingestion claims
StaticIngestors == {"fetchMarkets", "fetchEconomic", "fetchPrivateEquity"}
TableOf(fn) ==
  CASE fn = "fetchMarkets" -> markets
    [] fn = "fetchEconomic" -> economics
    [] fn = "fetchPrivateEquity" -> pe_metrics
    [] fn = "fetchPortfolio" -> positions
RecordsOf(fn) ==
  CASE fn = "fetchMarkets" -> Batch(sampleData)
    [] fn = "fetchEconomic" -> Batch(data)
    [] fn = "fetchPrivateEquity" -> Batch(peInserts)

\* two consecutive runs of fn that both returned, read the same record
\* source, and of which the second wrote only later timestamps than the first
Rerun(fn, j) ==
  /\ hist[fn][j].ok /\ hist[fn][j + 1].ok
  /\ hist[fn][j].src = hist[fn][j + 1].src
  /\ hist[fn][j + 1].first > hist[fn][j].last
SameSnapshotContent(fn, j) ==
  /\ hist[fn][j + 1].content = hist[fn][j].content
  /\ hist[fn][j + 1].count <= hist[fn][j].count
IdempotentOver(fns) ==
  \A fn \in fns : \A j \in 1..(Len(hist[fn]) - 1) :
    Rerun(fn, j) => SameSnapshotContent(fn, j)

C8_IngestionIsIdempotent_static == IdempotentOver(StaticIngestors)

\* a second run of the static ingestors has returned with later timestamps
C8_Witness_static ==
  \E fn \in StaticIngestors : \E j \in 1..(Len(hist[fn]) - 1) :
    Rerun(fn, j) /\ hist[fn][j].count > 1

\* the rows the ingestor at work has written so far in this run
WrittenByRun == SubSeq(TableOf(upd.fn), Len(upd.before) + 1, Len(TableOf(upd.fn)))
Writing == upd.pc \in Ingestors /\ upd.phase \in {"loop", "api", "file"}

C9_OneTimestampPerRun_static ==
  (Writing /\ upd.pc \in StaticIngestors) =>
    \A a \in Rows(WrittenByRun) : a.timestamp = upd.first

\* a static ingestor is writing its batch and the clock has moved on
C9_Witness_static ==
  /\ Writing /\ upd.pc \in StaticIngestors
  /\ Len(WrittenByRun) >= 2
  /\ clock > upd.first

\* the rows a static ingestor stores for the first n records of its batch
StoredPrefix(fn, before, n, now) ==
  [j \in 1..n |-> [id |-> Len(before) + j, timestamp |-> now] @@ RecordsOf(fn)[j]]

\* C10: if appending the k-th record of a batch fails, the batch stops there:
\* the rows stored before the batch and the k-1 records appended before the
\* failure remain stored unchanged, and no record after the k-th is appended.
C10_FailedBatchKeepsPrefix ==
  thrown.fn # "none" =>
    /\ Len(TableOf(thrown.fn)) = Len(thrown.before) + thrown.k - 1
    /\ SubSeq(TableOf(thrown.fn), 1, Len(thrown.before)) = thrown.before
    /\ thrown.fn \in StaticIngestors =>
         TableOf(thrown.fn) =
           thrown.before \o StoredPrefix(thrown.fn, thrown.before, thrown.k - 1, thrown.now)

\* a batch over a non-empty table failed at a record that has records before
\* and after it, and the run has ended
C10_Witness ==
  /\ thrown.fn \in StaticIngestors
  /\ thrown.k >= 2 /\ thrown.k < Len(RecordsOf(thrown.fn))
  /\ Len(thrown.before) > 0
  /\ upd.pc = "idle"

\* ---------------------------------------------------- errors of a run
\* C11: an error raised by any step of updateAll is caught inside updateAll:
\* the step that follows a throw is the catch block, which ends the run
\* without rejecting, and the next trigger starts a new run at fetchMarkets
\* with nothing carried over from the failed run.
C11_ErrorsCaughtInUpdateAll ==
  [][ /\ (upd.pc = "catch" /\ upd' # upd) => upd' = IdleRun
      /\ (upd.pc \notin {"idle", "catch"} /\ upd' # upd /\ upd'.pc \notin Ingestors \cup {"computeRisk", "idle"})
           => upd'.pc = "catch"
      /\ (upd.pc = "idle" /\ upd' # upd) => (upd' = Enter("fetchMarkets") /\ thrown' = NoThrow)
    ]_vars

\* a run failed and the run triggered after it has got past fetchMarkets
C11_Witness ==
  /\ runs >= 2
  /\ \E fn \in Ingestors : \E j \in DOMAIN hist[fn] : ~hist[fn][j].ok
  /\ upd.pc = "fetchEconomic"

\* ================================================================ the API
\* mutant: the loop of getLastUpdate leaves out the table markets
getLastUpdate_noMarkets ==
  LET visit(latest, table) ==
        LET ts == SqlMax({r.timestamp : r \in Rows(table)})
        IN IF ts = {} THEN latest
           ELSE LET t == CHOOSE x \in ts : TRUE
                IN IF latest = None \/ t > latest[1] THEN Some(t) ELSE latest
  IN visit(visit(None, economics), pe_metrics)

\* server.ts:28-41: the greatest timestamp of markets, economics and
\* pe_metrics, None (null) when all three are empty; MAX of an empty table
\* is NULL, which is falsy
getLastUpdate ==
  LET visit(latest, table) ==
        LET ts == SqlMax({r.timestamp : r \in Rows(table)})
        IN IF ts = {} THEN latest
           ELSE LET t == CHOOSE x \in ts : TRUE
                IN IF latest = None \/ t > latest[1] THEN Some(t) ELSE latest
  IN visit(visit(visit(None, markets), economics), pe_metrics)

\* cron.ts:541-546 (and 233-237): SELECT * FROM risk_measures WHERE as_of_date = ?
\* (every stored as_of_date is a date: computeRisk is the only writer)
getRiskMeasures(as_of_date) ==
  SelectSeq(risk_measures, LAMBDA r : r.as_of_date = as_of_date)

\* server.ts:43-47
apiMarkets(category) ==
  [data |-> getLatestMarketQuotes(category), lastUpdate |-> getLastUpdate]
\* server.ts:61-64
apiPortfolio == [data |-> getLatestPositions, lastUpdate |-> getLastUpdate]
\* server.ts:67-71; without a date parameter (None) the date is today's
apiRisk(dateParam) ==
  [data |-> getRiskMeasures(IF dateParam # None THEN dateParam[1] ELSE DateOf(clock)),
   lastUpdate |-> getLastUpdate]

MaxOf(S) == CHOOSE t \in S : \A u \in S : u <= t
NewestOf(tables) ==
  LET all == UNION {{r.timestamp : r \in Rows(table)} : table \in tables}
  IN IF all = {} THEN None ELSE Some(MaxOf(all))
NotNewerThan(rows, lastUpdate) ==
  \A r \in Rows(rows) : lastUpdate # None /\ r.timestamp <= lastUpdate[1]

\* C12: the lastUpdate returned with every API response is the greatest
\* timestamp over the rows of all domain tables (markets, economics, PE
\* metrics, positions, risk measures), null only when all are empty; no row
\* in the data of /api/portfolio or /api/risk is newer than the lastUpdate
\* returned with it.
C12_LastUpdateCoversAllDomains ==
  /\ getLastUpdate = NewestOf({markets, economics, pe_metrics, positions, risk_measures})
  /\ NotNewerThan(apiPortfolio.data, apiPortfolio.lastUpdate)
  /\ \A d \in {r.as_of_date : r \in Rows(risk_measures)} :
       NotNewerThan(apiRisk(Some(d)).data, apiRisk(Some(d)).lastUpdate)

\* C12 restricted to the three tables getLastUpdate reads
C12_LastUpdateCoversAllDomains_threeTables ==
  getLastUpdate = NewestOf({markets, economics, pe_metrics})

\* ======================================================= risk computation
\* computeRisk(db) called on a store whose positions a client has written:
\* the positions are well-formed records in two buckets, stamped with the
\* time of the write
RiskBuckets == {"Liquid - Equities", "Illiquid - Private Equity"}
RiskPositionRecords ==
  [id : PositionIds, name : {"Fund"}, asset_class : {"equity"},
   market_value : {100, 200}, ytd_dollar : {None}, ytd_percent : {None},
   irr : {None}, tvpi : {None}, nav_percent : {None}, nav_target : {None},
   bucket : RiskBuckets, timestamp : 1..MaxClock]

\* cron.ts:24: control reaches the call computeRisk(db)
callComputeRisk ==
  /\ upd.pc = "idle"
  /\ runs < MaxRuns
  /\ runs' = runs + 1
  /\ upd' = Enter("computeRisk")
  /\ thrown' = NoThrow
  /\ UNCHANGED <<storeVars, histVars, clock, uuids, hist, addepar, tasks, home>>

\* computeRisk.ts:1 imports '../database': the store is that of database.ts
InitRisk == Init /\ ~addepar /\ dbModule = ModFull

NextRisk ==
  \/ \E record \in RiskPositionRecords :
       record.timestamp = clock /\ insertPosition(record)
  \/ Tick
  \/ callComputeRisk
  \/ computeRisk
  \/ updateAllCatch

SpecRisk == InitRisk /\ [][NextRisk]_vars

\* C13: (as_of_date, bucket) is the key of a risk measure: getRiskMeasures(d)
\* returns at most one row per bucket, also after several runs on one date.
C13_OneRiskRowPerDateAndBucket ==
  \A d \in {r.as_of_date : r \in Rows(risk_measures)} :
    LET rows == getRiskMeasures(d)
    IN \A i, j \in DOMAIN rows : rows[i].bucket = rows[j].bucket => i = j

\* ============================================================= commentary
\* market values are held in hundredths; Number.prototype.toFixed(2) and the
\* default conversion of a number to a string, for values >= 0
Digits2(n) == IF n < 10 THEN "0" \o ToString(n) ELSE ToString(n)
toFixed2(h) == ToString(h \div 100) \o "." \o Digits2(h % 100)
numberToString(h) ==
  IF h % 100 = 0 THEN ToString(h \div 100)
  ELSE IF h % 10 = 0 THEN ToString(h \div 100) \o "." \o ToString((h % 100) \div 10)
  ELSE ToString(h \div 100) \o "." \o Digits2(h % 100)
\* commentary.ts:40: reduce((sum, m) => sum + m.value, 0)
RECURSIVE SumValue(_)
SumValue(rows) == IF rows = << >> THEN 0 ELSE Head(rows).value + SumValue(Tail(rows))
\* sum / length, rounded to the hundredth as toFixed(2) prints it
Average(rows) == (2 * SumValue(rows) + Len(rows)) \div (2 * Len(rows))
\* Array.prototype.join(' ')
RECURSIVE JoinSpace(_)
JoinSpace(parts) ==
  IF parts = << >> THEN ""
  ELSE IF Len(parts) = 1 THEN parts[1]
  ELSE parts[1] \o " " \o JoinSpace(Tail(parts))
\* Array.prototype.slice(0, n)
Slice0(seq, n) == SubSeq(seq, 1, Min(n, Len(seq)))

NoDataCommentary ==
  [summary |-> "No market data available to generate commentary.",
   risk |-> "Insufficient data.", opportunity |-> "Insufficient data.",
   changes |-> << >>]

\* commentary.ts:32-56: the sentences of the summary, one for each of the
\* five categories the code names that has a row (the typographic apostrophe
\* and hyphen of lines 45 and 49 are written in ASCII)
SummaryParts(latest) ==
  LET of(category) == SelectSeq(latest, LAMBDA l : l.category = category)
      part(rows, text) == IF Len(rows) > 0 THEN << text >> ELSE << >>
      equities == of("equities")
      rates == of("rates")
      commodities == of("commodities")
  IN (IF Len(equities) > 0
        THEN << "Global equities trade around " \o toFixed2(Average(equities))
                \o ", reflecting the latest index levels." >>
        ELSE << >>)
     \o (IF Len(rates) > 0
        THEN << "Government bond yields average " \o toFixed2(Average(rates))
                \o "%, signalling the market's rate expectations." >>
        ELSE << >>)
     \o (IF Len(commodities) > 0
        THEN << "Major commodities hover near " \o toFixed2(Average(commodities))
                \o ", amid supply-demand dynamics." >>
        ELSE << >>)
     \o part(of("fx"), "G10 FX crosses show muted moves against the USD.")
     \o part(of("crypto"), "Crypto assets remain volatile with bitcoin and ether leading.")

\* mutant: the change log keeps every row
Narrative_noSlice(latest) ==
  [summary |-> JoinSpace(SummaryParts(latest)),
   risk |-> "Monitor potential volatility from upcoming economic data releases.",
   opportunity |-> "Look for dislocations in private markets as fundraising conditions evolve.",
   changes |-> [i \in DOMAIN latest |->
                  latest[i].name \o ": latest value " \o numberToString(latest[i].value)]]

\* commentary.ts:31-66: the narrative of a snapshot
Narrative(latest) ==
  [summary |-> JoinSpace(SummaryParts(latest)),
   risk |-> "Monitor potential volatility from upcoming economic data releases.",
   opportunity |-> "Look for dislocations in private markets as fundraising conditions evolve.",
   changes |-> Slice0([i \in DOMAIN latest |->
                         latest[i].name \o ": latest value " \o numberToString(latest[i].value)], 5)]

\* mutant: without the guard of commentary.ts:23
generateCommentary_noGuard == Narrative(getLatestMarketQuotes(Undefined))

\* commentary.ts:12-67
generateCommentary ==
  LET latest == getLatestMarketQuotes(Undefined)
  IN IF Len(latest) = 0 THEN NoDataCommentary ELSE Narrative(latest)

\* server.ts:73-76
apiCommentary == [commentary |-> generateCommentary, lastUpdate |-> getLastUpdate]

\* C14: when the markets snapshot is empty, generateCommentary returns
\* exactly {summary: 'No market data available to generate commentary.',
\* risk: 'Insufficient data.', opportunity: 'Insufficient data.', changes: []}.
C14_EmptyMarketsCommentary ==
  getLatestMarketQuotes(Undefined) = << >> =>
    /\ generateCommentary.summary = "No market data available to generate commentary."
    /\ generateCommentary.risk = "Insufficient data."
    /\ generateCommentary.opportunity = "Insufficient data."
    /\ generateCommentary.changes = << >>
    /\ DOMAIN generateCommentary = {"summary", "risk", "opportunity", "changes"}

\* the store holds economic releases and positions but no market quote, and
\* the commentary is the no-data commentary
C14_Witness ==
  /\ markets = << >>
  /\ economics # << >>
  /\ positions # << >>
  /\ apiCommentary.commentary.changes = << >>

\* the commentary of a non-empty snapshot is a narrative
C14_Narrative ==
  markets # << >> =>
    /\ generateCommentary.risk # "Insufficient data."
    /\ Len(generateCommentary.changes) >= 1

\* ------------------------------------------------- claims on computeRisk
\* computeRisk.ts:12: the function is declared void and has no return
\* statement: its caller receives undefined whatever the snapshot
computeRiskReturn == Undefined

\* a step of computeRisk that read the snapshot 'snap'
ComputeRiskStep == upd.pc = "computeRisk" /\ upd' # upd

\* C15: on an empty positions snapshot computeRisk yields an explicit
\* 'insufficient data' result to its caller: it does not fail, writes no
\* (zero-valued) risk row, and does not end silently with no output.
C15_EmptyPositionsInsufficientData ==
  [][ (ComputeRiskStep /\ getLatestPositions = << >>) =>
        /\ upd'.pc # "catch"
        /\ risk_measures' = risk_measures
        /\ computeRiskReturn # Undefined
    ]_vars

\* what C15 leaves when the explicit result is not asked for: on an empty
\* snapshot computeRisk does not fail and writes nothing
C15_EmptyPositionsInsufficientData_silent ==
  [][ (ComputeRiskStep /\ getLatestPositions = << >>) =>
        /\ upd' = IdleRun
        /\ risk_measures' = risk_measures
    ]_vars

\* the sum of market_value over the rows of 'snap' at the indexes I
RECURSIVE SumAt(_, _)
SumAt(snap, I) ==
  IF I = {} THEN 0
  ELSE LET i == CHOOSE x \in I : TRUE
       IN snap[i].market_value + SumAt(snap, I \ {i})

\* the labels of the snapshot whose lower-cased text contains 'illiquid'
LabelsWithIlliquid == {b \in RiskBuckets : Has(toLowerCase(b), "illiquid")}

\* C16: one (completed) run of computeRisk writes exactly one risk row per
\* distinct bucket of the positions snapshot; the row's var_99 is the sum of
\* market_value of the bucket x 2.3263 x sigma, sigma = 0.15 exactly when the
\* lower-cased label contains 'illiquid' and 0.10 otherwise, and its
\* stress_pl is the sum x -0.05; a single illiquid position of value 100
\* gives 34.8945 and -5 (var_99 in millionths, stress_pl in hundredths).
C16_OneRowPerBucketWithVaR ==
  [][ (ComputeRiskStep /\ upd' = IdleRun) =>
        LET snap == getLatestPositions
            old == Len(risk_measures)
            new == SubSeq(risk_measures', old + 1, Len(risk_measures'))
            distinct == {snap[i].bucket : i \in DOMAIN snap}
        IN /\ SubSeq(risk_measures', 1, old) = risk_measures
           /\ Len(new) = Cardinality(distinct)
           /\ {new[j].bucket : j \in DOMAIN new} = distinct
           /\ \A j \in DOMAIN new :
                LET sum == SumAt(snap, {i \in DOMAIN snap : snap[i].bucket = new[j].bucket})
                    sigma == IF new[j].bucket \in LabelsWithIlliquid THEN 15 ELSE 10
                IN /\ new[j].var_99 = Some(sum * 23263 * sigma)
                   /\ new[j].stress_pl = Some(sum * (-5))
           /\ (Len(snap) = 1 /\ snap[1].market_value = 100
                 /\ snap[1].bucket = "Illiquid - Private Equity")
                => (new[1].var_99 = Some(34894500) /\ new[1].stress_pl = Some(-500))
    ]_vars

\* one run has written the row of a single illiquid position of value 100,
\* and a later run the row of the same bucket summing two positions
C16_Witness ==
  /\ upd.pc = "idle"
  /\ runs = 2
  /\ Len(risk_measures) = 2
  /\ risk_measures[1].bucket = "Illiquid - Private Equity"
  /\ risk_measures[1].var_99 = Some(34894500)
  /\ risk_measures[1].stress_pl = Some(-500)
  /\ risk_measures[2].var_99 = Some(300 * 23263 * 15)
  /\ Len(getLatestPositions) = 2

\* ======================================================== the store's life
\* mutant: a schema initialisation that drops and recreates the tables
initialise_dropTables ==
  /\ markets' = << >>
  /\ economics' = << >>
  /\ pe_metrics' = << >>
  /\ positions' = << >>
  /\ risk_measures' = << >>
  /\ UNCHANGED <<dbModule, histVars, ingestVars>>

\* database.ts:23-72 (cron.ts:263-375): new DB(filename) on the file that
\* holds the store, as server.ts:11 and cron.ts:9 both do; every statement of
\* initialise is PRAGMA or CREATE TABLE IF NOT EXISTS
initialise == UNCHANGED vars

\* server.ts:43-76: a GET handler (snapshot reads, getLastUpdate,
\* generateCommentary) executes SELECT statements only
apiGet ==
  /\ \A category \in Categories \cup {Undefined} : apiMarkets(category).data \in Seq(Rows(markets))
  /\ apiCommentary.commentary.changes \in Seq(STRING)
  /\ UNCHANGED vars

InitStore == Init /\ ~addepar

\* the records a client writes carry the time of the write
NextStore ==
  \/ \E record \in MarketRecords : record.timestamp = clock /\ insertMarketQuote(record)
  \/ \E record \in EconomicRecords : record.timestamp = clock /\ insertEconomicRelease(record)
  \/ \E record \in PERecords : record.timestamp = clock /\ insertPEMetric(record)
  \/ \E record \in PositionRecords : record.timestamp = clock /\ insertPosition(record)
  \/ callComputeRisk
  \/ computeRisk
  \/ updateAllCatch
  \/ initialise
  \/ apiGet

SpecStore == InitStore /\ [][NextStore]_vars

IsPrefix(a, b) == Len(a) <= Len(b) /\ SubSeq(b, 1, Len(a)) = a

\* C17: the markets, economics, PE-metrics and risk-measure tables are
\* append-only: no step (insert, snapshot read, commentary, risk
\* computation, schema initialisation on the same store) removes or changes
\* a row of them; a step only adds rows after the existing ones.
C17_AppendOnly ==
  [][ /\ IsPrefix(markets, markets')
      /\ IsPrefix(economics, economics')
      /\ IsPrefix(pe_metrics, pe_metrics')
      /\ IsPrefix(risk_measures, risk_measures')
    ]_vars

\* two risk computations have appended to risk_measures and a market quote
\* and a position have been written
C17_Witness ==
  /\ Len(risk_measures) >= 2
  /\ markets # << >>
  /\ positions # << >>
  /\ runs = 2

\* ===================================================== malformed appends
\* the store of database.ts (= cron.ts:261-558) called with records that
\* lack one field: a text field undefined, a numeric field left out
Without(record, f) == [g \in DOMAIN record \ {f} |-> record[g]]
LackingOne(records, required) ==
  {IF f \in TextColumns THEN [r EXCEPT ![f] = NULL] ELSE Without(r, f) :
     r \in records, f \in required}
PositionRequired == {"id", "name", "asset_class", "market_value", "bucket", "timestamp"}
MarketRequired == {"category", "symbol", "name", "value", "timestamp"}
LoosePositionRecords ==
  LET wellFormed == {r \in PositionRecords : r.timestamp = 1 /\ r.market_value = 100}
  IN wellFormed \cup LackingOne(wellFormed, PositionRequired)
LooseMarketRecords ==
  LET wellFormed == {r \in MarketRecords : r.timestamp = 1 /\ r.value = 450025}
  IN wellFormed \cup LackingOne(wellFormed, MarketRequired)

InitAppend == Init /\ ~addepar /\ dbModule = ModFull

NextAppend ==
  \/ \E record \in LoosePositionRecords : insertPosition(record)
  \/ \E record \in LooseMarketRecords : insertMarketQuote(record)

SpecAppend == InitAppend /\ [][NextAppend]_vars

\* the required fields of the record of a call, and whether it lacks one
RequiredOf(op) ==
  IF op = "insertPosition" THEN PositionRequired
  ELSE IF op = "insertMarketQuote" THEN MarketRequired
  ELSE {}
Malformed(call, required) == \E f \in required : IsNullBound(call.record, f)
AppendStep == calls' = calls + 1
Rejected == lastCall'.threw /\ storeVars' = storeVars

\* C18: an append whose record lacks a required key or payload field (for a
\* position: id, name, asset_class, market_value, bucket or timestamp) is
\* rejected with an error before any write: the call throws and the store is
\* unchanged by it.
C18_MalformedAppendRejected ==
  [][ (AppendStep /\ Malformed(lastCall', RequiredOf(lastCall'.op))) => Rejected ]_vars

\* C18 for every required field but the id of a position
C18_MalformedAppendRejected_exceptId ==
  [][ (AppendStep /\ Malformed(lastCall', RequiredOf(lastCall'.op) \ {"id"})) => Rejected ]_vars

\* the error of a rejected position reaches updateAll: with the store of
\* database.ts no record of fetchPortfolio (which has no asset_class) is
\* stored and no run of fetchPortfolio completes
C18_MalformedAppendRejected_ingest ==
  dbModule = ModFull =>
    /\ positions = << >>
    /\ \A j \in DOMAIN hist["fetchPortfolio"] : ~hist["fetchPortfolio"][j].ok

\* ==================================================== scheduling of runs
\* index.ts:1-2 loads server.ts and cron.ts into one process.  An async
\* function runs synchronously up to its first await that has to wait; the
\* ingestors of fetchMarkets.ts, fetchEconomic.ts and fetchPrivateEquity.ts
\* have no await, so each 'await fetchX(db)' runs the whole batch and then
\* yields: the continuation joins the queue of ready continuations, which
\* resume first-in first-out.  'await fetch(...)' (fetchPortfolio.ts:23)
\* waits for the network: the call leaves the queue until the answer comes.
\* A cron trigger is a timer callback: it runs when the queue is empty.
\* A step of this specification is one synchronous stretch of one call.

\* the calls of seed (server.ts:18-20) and of updateAll (cron.ts:18-24)
Program(t) ==
  IF t = "seed" THEN <<"fetchMarkets", "fetchEconomic", "fetchPrivateEquity">>
  ELSE <<"fetchMarkets", "fetchEconomic", "fetchPrivateEquity", "fetchPortfolio",
         "computeRisk">>
\* the call that follows 'step' in the body of t, "done" after the last
After(t, step) ==
  LET i == CHOOSE j \in DOMAIN Program(t) : Program(t)[j] = step
  IN IF i = Len(Program(t)) THEN "done" ELSE Program(t)[i + 1]

\* the call of task t is in progress: started and not yet settled
InProgress(t) == tasks.pc[t] \notin {"notStarted", "done"}

\* the rows a batch of a static ingestor binds, stamped 'now'
StaticRecords(fn, now) ==
  CASE fn = "fetchMarkets" ->
         [i \in DOMAIN Batch(sampleData) |-> [timestamp |-> now] @@ Batch(sampleData)[i]]
    [] fn = "fetchEconomic" ->
         [i \in DOMAIN Batch(data) |->
            [indicator |-> Batch(data)[i].indicator, country |-> Batch(data)[i].country,
             value |-> Batch(data)[i].value, release_date |-> Batch(data)[i].release_date,
             period |-> Batch(data)[i].period, surprise |-> Batch(data)[i].surprise,
             timestamp |-> now]]
    [] fn = "fetchPrivateEquity" ->
         [i \in DOMAIN Batch(peInserts) |-> [timestamp |-> now] @@ Batch(peInserts)[i]]
\* INSERT of each record in turn into a table with an AUTOINCREMENT id
RECURSIVE InsertAll(_, _)
InsertAll(table, records) ==
  IF records = << >> THEN table
  ELSE InsertAll(Append(table, [id |-> NextRowId(table)] @@ Head(records)), Tail(records))

\* rows.forEach(row => db.insertPosition(record)) (fetchPortfolio.ts:41-58,
\* 72-88) on 'table': each record has a fresh id, so no insert conflicts;
\* the store with NOT NULL columns rejects the first record
RECURSIVE InsertPositions(_, _)
InsertPositions(table, records) ==
  IF records = << >> THEN [threw |-> FALSE, table |-> table]
  ELSE IF dbModule = ModFull /\ ~PositionNotNullOK(Head(records))
    THEN [threw |-> TRUE, table |-> table]
    ELSE InsertPositions(Append(table, Head(records)), Tail(records))
\* the records of the rows of the view and of the sheet, the first of them
\* with the identifier uuidv4() issues after 'issued' others
apiRecords(issued) ==
  [i \in DOMAIN Batch(apiRows) |->
     PositionOf("uuid-" \o ToString(issued + i), apiRows[i].name,
                apiRows[i].market_value, apiBuckets[i], clock)]
fileRecords(issued) ==
  [i \in DOMAIN Batch(fileRows) |->
     PositionOf("uuid-" \o ToString(issued + i), fileRows[i].Name,
                fileRows[i].MarketValue, fileBuckets[i], clock)]

\* the call 'step' of task t has returned or thrown: t goes on with the
\* next call after yielding, or ends (cron.ts:27-30, server.ts:23)
Yield(t, rest, step, threw) ==
  IF threw \/ After(t, step) = "done"
    THEN [pc |-> [tasks.pc EXCEPT ![t] = "done"], queue |-> rest]
    ELSE [pc |-> [tasks.pc EXCEPT ![t] = After(t, step)], queue |-> Append(rest, t)]

\* one batch of a static ingestor run by t: all its inserts, or the inserts
\* before the one that throws
staticBatch(t, rest, fn) ==
  LET table == TableOf(fn)
      records == StaticRecords(fn, clock)
  IN \E n \in 0..Len(records) :
       /\ fn = "fetchMarkets" => markets' = InsertAll(table, SubSeq(records, 1, n))
       /\ fn = "fetchEconomic" => economics' = InsertAll(table, SubSeq(records, 1, n))
       /\ fn = "fetchPrivateEquity" => pe_metrics' = InsertAll(table, SubSeq(records, 1, n))
       /\ fn # "fetchMarkets" => markets' = markets
       /\ fn # "fetchEconomic" => economics' = economics
       /\ fn # "fetchPrivateEquity" => pe_metrics' = pe_metrics
       /\ tasks' = Yield(t, rest, fn, n < Len(records))
       /\ UNCHANGED <<positions, risk_measures, uuids>>

\* fetchPortfolio.ts:67-89 run by t after 'issued' identifiers: readFile
\* throws, or the rows of the sheet are inserted until one is rejected
fileBranch(t, rest, issued) ==
  \/ /\ tasks' = Yield(t, rest, "fetchPortfolio", TRUE)
     /\ uuids' = issued
     /\ UNCHANGED positions
  \/ LET res == InsertPositions(positions, fileRecords(issued))
     IN /\ positions' = res.table
        /\ uuids' = issued + (IF res.threw THEN 1 ELSE Len(Batch(fileRows)))
        /\ tasks' = Yield(t, rest, "fetchPortfolio", res.threw)

\* fetchPortfolio.ts:36-62 run by t when the answer has come: the rows of
\* the view are inserted; an error (a failed request, a rejected record) is
\* caught at line 62 and the file is read instead
apiBranch(t, rest) ==
  LET res == InsertPositions(positions, apiRecords(uuids))
  IN \/ /\ ~res.threw
        /\ positions' = res.table
        /\ uuids' = uuids + Len(Batch(apiRows))
        /\ tasks' = Yield(t, rest, "fetchPortfolio", FALSE)
     \/ /\ res.threw
        /\ fileBranch(t, rest, uuids + 1)
     \/ fileBranch(t, rest, uuids)

\* computeRisk.ts:12-43 run by t
riskStep(t, rest) ==
  LET snap == getLatestPositions
      all == [j \in DOMAIN BucketOrder(snap) |-> RiskMeasureOf(snap, j)]
  IN \E n \in 0..Len(all) :
       /\ risk_measures' = risk_measures \o SubSeq(all, 1, n)
       /\ uuids' = uuids + Min(n + 1, Len(all))
       /\ tasks' = Yield(t, rest, "computeRisk", n < Len(all))

\* a call of seed() or updateAll(): its body runs up to the end of
\* 'await fetchMarkets(db)'
startTask(t) ==
  /\ tasks.pc[t] = "notStarted"
  /\ staticBatch(t, tasks.queue, "fetchMarkets")
  /\ UNCHANGED <<dbModule, histVars, clock, upd, runs, thrown, hist, addepar, home>>

\* server.ts:23, evaluated when index.ts:1 imports the server
seed ==
  /\ tasks.pc["seed"] = "notStarted"
  /\ startTask("seed")

\* cron.ts:36, evaluated when index.ts:2 imports cron.ts, after server.ts
startupUpdateAll ==
  /\ tasks.pc["seed"] # "notStarted"
  /\ startTask("startup")

\* cron.ts:33: the schedule fires; a timer callback runs when no
\* continuation is ready, whatever calls are still waiting
cronUpdateAll ==
  /\ tasks.pc["startup"] # "notStarted"
  /\ tasks.queue = << >>
  /\ startTask("cron")

\* the continuation at the head of the queue runs to its next await
resume ==
  /\ tasks.queue # << >>
  /\ tasks.pc["startup"] # "notStarted"
  /\ LET t == Head(tasks.queue)
         rest == Tail(tasks.queue)
         step == tasks.pc[t]
     IN \/ /\ step \in {"fetchEconomic", "fetchPrivateEquity"}
           /\ staticBatch(t, rest, step)
        \/ /\ step = "fetchPortfolio"
           /\ addepar                                    \* fetchPortfolio.ts:23
           /\ tasks' = [pc |-> [tasks.pc EXCEPT ![t] = "awaitFetch"], queue |-> rest]
           /\ UNCHANGED <<markets, economics, pe_metrics, positions, risk_measures, uuids>>
        \/ /\ step = "fetchPortfolio"
           /\ ~addepar
           /\ fileBranch(t, rest, uuids)
           /\ UNCHANGED <<markets, economics, pe_metrics, risk_measures>>
        \/ /\ step = "fetchResponse"
           /\ apiBranch(t, rest)
           /\ UNCHANGED <<markets, economics, pe_metrics, risk_measures>>
        \/ /\ step = "computeRisk"
           /\ riskStep(t, rest)
           /\ UNCHANGED <<markets, economics, pe_metrics, positions>>
  /\ UNCHANGED <<dbModule, histVars, clock, upd, runs, thrown, hist, addepar, home>>

\* the Addepar request of a waiting call settles
fetchSettles ==
  /\ \E t \in TaskNames :
       /\ tasks.pc[t] = "awaitFetch"
       /\ tasks' = [pc |-> [tasks.pc EXCEPT ![t] = "fetchResponse"],
                    queue |-> Append(tasks.queue, t)]
  /\ UNCHANGED <<storeVars, histVars, clock, uuids, upd, runs, thrown, hist, addepar, home>>

NextOverlap ==
  \/ seed
  \/ startupUpdateAll
  \/ cronUpdateAll
  \/ resume
  \/ fetchSettles
  \/ Tick

SpecOverlap == Init /\ [][NextOverlap]_vars

\* C19: ingestion runs do not overlap: at no time are two runs (two
\* updateAll runs, or an updateAll run and the server's seed) in progress
\* together.
C19_RunsDoNotOverlap ==
  Cardinality({t \in TaskNames : InProgress(t)}) <= 1

\* ====================================================== readers of a batch
\* A GET handler of the process that ingests runs between two synchronous
\* stretches, never inside the loop of a batch; what it can find in the
\* store of a batch that is not whole is what a failed batch left.  (A
\* reader in another process, on the same data.db, also reads between two
\* inserts of a running batch: each insert is its own transaction.)
BatchKeys(fn) == {KeyOf(fn, RecordsOf(fn)[i]) : i \in DOMAIN RecordsOf(fn)}
\* the keys whose snapshot row was written by the batch that started on the
\* table 'before'
KeysWrittenSince(fn, before) ==
  {KeyOf(fn, r) : r \in {x \in Rows(SnapshotOf(fn)) : x.id > Len(before)}}

\* C20: a snapshot read sees an ingestion batch of a domain fully absent or
\* fully present: no snapshot has some keys of the batch at the batch's
\* timestamp while other keys of the batch are still at an older one (or
\* missing).
C20_BatchAllOrNothing ==
  thrown.fn \in StaticIngestors =>
    \/ KeysWrittenSince(thrown.fn, thrown.before) = {}
    \/ KeysWrittenSince(thrown.fn, thrown.before) = BatchKeys(thrown.fn)

\* C20 for the batches that ran to their end: when a static ingestor has
\* returned, every key of its batch is in the snapshot at the batch's stamp
C20_BatchAllOrNothing_completed ==
  \A fn \in StaticIngestors :
    (hist[fn] # << >> /\ hist[fn][Len(hist[fn])].ok
       /\ ~(upd.fn = fn /\ upd.phase = "loop") /\ thrown.fn # fn) =>
      \A key \in BatchKeys(fn) :
        \E r \in Rows(SnapshotOf(fn)) :
          KeyOf(fn, r) = key /\ r.timestamp >= hist[fn][Len(hist[fn])].last

\* ================================================== retries of an API call
\* fetchPortfolio.ts:23-33: the only call of an external API; it is made
\* once, outside any loop, and its failure is caught at line 62, which goes
\* on to the file
fetchAttempts == 1
\* no status is set anywhere in cron.ts, fetchPortfolio.ts or server.ts when
\* the call fails: line 64 writes a warning to the console
dataStatus == Undefined

\* the API call of the run fails: fetchPortfolio goes from its call to the
\* file fallback with credentials set
ApiCallFailed ==
  /\ upd.pc = "fetchPortfolio" /\ upd.phase = "call" /\ addepar
  /\ upd'.pc = "fetchPortfolio" /\ upd'.phase = "fallback"

\* C21: an update retries a failed API call up to three times and flags a
\* 'Data delayed' status only after the third failure: when the call of a
\* run has failed for good, three attempts were made and the status is set.
C21_RetriesBeforeDataDelayed ==
  [][ ApiCallFailed => (fetchAttempts = 3 /\ dataStatus = "Data delayed") ]_vars

\* what the code does on a failed call: the same run reads the file
C21_RetriesBeforeDataDelayed_fallback ==
  [][ ApiCallFailed => (upd'.src = "file" /\ positions' = positions) ]_vars

\* ================================================ a static batch on a store
\* the keys of the records of fetchMarkets.ts:18-45, fetchEconomic.ts:17-42
\* and fetchPrivateEquity.ts:89-118 (all of them, not only the Batch)
Injective(seq) == \A i, j \in DOMAIN seq : seq[i] = seq[j] => i = j
StaticKeysDistinct ==
  /\ Injective([i \in DOMAIN sampleData |-> KeyOf("fetchMarkets", sampleData[i])])
  /\ Injective([i \in DOMAIN data |-> KeyOf("fetchEconomic", data[i])])
  /\ Injective([i \in DOMAIN peInserts |-> KeyOf("fetchPrivateEquity", peInserts[i])])

\* the step in which the static ingestor fn returns
Returns(fn) ==
  /\ upd.pc = fn /\ upd.phase = "loop"
  /\ upd'.pc \notin {fn, "catch"}
AllEarlier(table, now) == \A r \in Rows(table) : r.timestamp < now

\* C22: after a run of fetchMarkets, fetchEconomic or fetchPrivateEquity on
\* a store whose rows of the domain are all earlier than the batch (or on an
\* empty store), the snapshot of the domain is exactly one row per record of
\* the batch, with the batch's timestamp and payload; the keys of each
\* static batch are pairwise distinct; the snapshot contains SPX under
\* 'equities', CPI/US, and Capital Raised/Buyout.
C22_SnapshotIsTheBatch ==
  [][ \A fn \in StaticIngestors :
        (Returns(fn) /\ AllEarlier(upd.before, upd.now)) =>
          /\ StaticKeysDistinct
          /\ SnapshotOf(fn)' =
               StoredPrefix(fn, upd.before, Len(RecordsOf(fn)), upd.now)
          /\ fn = "fetchMarkets" =>
               \E q \in Rows(getLatestMarketQuotes("equities")') : q.symbol = "SPX"
          /\ fn = "fetchEconomic" =>
               \E e \in Rows(getLatestEconomicReleases') :
                 e.indicator = "CPI" /\ e.country = "US"
          /\ fn = "fetchPrivateEquity" =>
               \E m \in Rows(getLatestPEMetrics') :
                 m.metric = "Capital Raised" /\ m.strategy = "Buyout"
    ]_vars

\* fetchPrivateEquity has returned twice, the second time on a table that
\* held the earlier batch, and the snapshot is the later batch alone
C22_Witness ==
  /\ Len(hist["fetchPrivateEquity"]) = 2
  /\ hist["fetchPrivateEquity"][1].ok /\ hist["fetchPrivateEquity"][2].ok
  /\ hist["fetchPrivateEquity"][2].first > hist["fetchPrivateEquity"][1].last
  /\ Len(pe_metrics) = 2 * Len(Batch(peInserts))
  /\ Len(getLatestPEMetrics) = Len(Batch(peInserts))
  /\ \A m \in Rows(getLatestPEMetrics) : m.timestamp = hist["fetchPrivateEquity"][2].first

\* ================================================ commentary on a snapshot
\* the store of database.ts filled by a client with up to MaxQuotes quotes,
\* of the five categories the commentary names and of one it does not
MaxQuotes == 6
QuoteRecords ==
  {[category |-> "equities", symbol |-> "SPX", name |-> "S&P 500", value |-> 450025, timestamp |-> 1],
   [category |-> "equities", symbol |-> "NDX", name |-> "Nasdaq 100", value |-> 1540085, timestamp |-> 1],
   [category |-> "rates", symbol |-> "US2Y", name |-> "UST 2yr", value |-> 450, timestamp |-> 1],
   [category |-> "commodities", symbol |-> "Gold", name |-> "Gold", value |-> 195000, timestamp |-> 1],
   [category |-> "fx", symbol |-> "EURUSD", name |-> "EUR/USD", value |-> 110, timestamp |-> 1],
   [category |-> "crypto", symbol |-> "BTCUSD", name |-> "Bitcoin", value |-> 5800000, timestamp |-> 1],
   [category |-> "credit", symbol |-> "CDXIG", name |-> "CDX IG", value |-> 5525, timestamp |-> 1]}

\* database.ts:77-89 called by the client
putMarketQuote(record) ==
  /\ Len(markets) < MaxQuotes
  /\ markets' = dbInsertMarketQuote(record).table
  /\ lastCall' = [op |-> "insertMarketQuote", record |-> record,
                  threw |-> dbInsertMarketQuote(record).threw]
  /\ UNCHANGED <<dbModule, economics, pe_metrics, positions, risk_measures, calls,
                 lastPos, ingestVars>>

\* commentary.ts:1 imports './database'
InitCommentary == Init /\ ~addepar /\ dbModule = ModFull

NextCommentary == \E record \in QuoteRecords : putMarketQuote(record)

SpecCommentary == InitCommentary /\ [][NextCommentary]_vars

CategoriesOf(latest) == {latest[i].category : i \in DOMAIN latest}
FixedRisk == "Monitor potential volatility from upcoming economic data releases."
FixedOpportunity ==
  "Look for dislocations in private markets as fundraising conditions evolve."

\* C23: whenever the markets snapshot is non-empty, generateCommentary
\* returns a non-empty summary of one sentence per category that has a
\* snapshot row, with the two fixed risk and opportunity strings, whatever
\* the categories and values of the rows.
C23_SummaryPerCategory ==
  LET latest == getLatestMarketQuotes(Undefined)
  IN latest # << >> =>
       /\ generateCommentary.summary # ""
       /\ Len(SummaryParts(latest)) = Cardinality(CategoriesOf(latest))
       /\ generateCommentary.risk = FixedRisk
       /\ generateCommentary.opportunity = FixedOpportunity

\* C23 for snapshots whose categories are among the five of commentary.ts:32-36
C23_SummaryPerCategory_named ==
  LET latest == getLatestMarketQuotes(Undefined)
  IN (latest # << >> /\ CategoriesOf(latest) \subseteq
                          {"equities", "rates", "commodities", "fx", "crypto"}) =>
       /\ generateCommentary.summary # ""
       /\ Len(SummaryParts(latest)) = Cardinality(CategoriesOf(latest))
       /\ generateCommentary.risk = FixedRisk
       /\ generateCommentary.opportunity = FixedOpportunity

\* the commentary of the snapshot SPX, NDX, EUR/USD is the text the code
\* builds from it
C23_SummaryPerCategory_text ==
  (Len(markets) = 3 /\ markets[1].symbol = "SPX" /\ markets[2].symbol = "NDX"
     /\ markets[3].symbol = "EURUSD") =>
    /\ generateCommentary.summary =
         "Global equities trade around 9950.55, reflecting the latest index levels. G10 FX crosses show muted moves against the USD."
    /\ generateCommentary.changes =
         << "S&P 500: latest value 4500.25", "Nasdaq 100: latest value 15400.85",
            "EUR/USD: latest value 1.1" >>

PortfolioInsert == upd.pc = "fetchPortfolio" /\ upd.phase \in {"api", "file"}
\* the record that step passes (fetchPortfolio.ts:44-56, 74-86)
PortfolioRecord ==
  IF upd.phase = "api"
    THEN PositionOf(uuidv4, Batch(apiRows)[upd.i + 1].name,
                    Batch(apiRows)[upd.i + 1].market_value, apiBuckets[upd.i + 1], clock)
    ELSE PositionOf(uuidv4, Batch(fileRows)[upd.i + 1].Name,
                    Batch(fileRows)[upd.i + 1].MarketValue, fileBuckets[upd.i + 1], clock)
\* the fields the claim lists; id may not be missing either
SuppliesRequired(record) == ~IsNullBound(record, "id") /\ PositionNotNullOK(record)
\* control leaves fetchPortfolio: it returned or its error reached updateAll
PortfolioEnds == upd.pc = "fetchPortfolio" /\ upd'.pc # "fetchPortfolio"

\* C25: every record fetchPortfolio passes to insertPosition supplies id,
\* name, asset_class, market_value, bucket and timestamp, so that with the
\* store of cron.ts:314-329 a run over n >= 1 rows ends without an error and
\* with n positions of that run stored.
C25_PortfolioRecordsComplete ==
  [][ dbModule = ModFull =>
        /\ PortfolioInsert => SuppliesRequired(PortfolioRecord)
        /\ PortfolioEnds =>
             /\ upd'.pc = "computeRisk"
             /\ Len(positions') = Len(upd.before) + Len(Batch(fileRows)) ]_vars

\* every field the claim lists except asset_class is supplied
C25_PortfolioRecordsComplete_otherFields ==
  [][ PortfolioInsert =>
        \A f \in {"id", "name", "market_value", "bucket", "timestamp"} :
          ~IsNullBound(PortfolioRecord, f) ]_vars

\* with the store of cron.ts:45-238, whose asset_class may be NULL, a run
\* that returns has stored one position per row of its source
C25_PortfolioRecordsComplete_nullable ==
  [][ (dbModule = ModEarly /\ PortfolioEnds /\ upd'.pc = "computeRisk" /\ upd.src # "api+file") =>
        Len(positions') = Len(upd.before) + Len(Batch(fileRows)) ]_vars

C26_OneRecordSource_cleanBranches ==
  [][ /\ (PortfolioInsert /\ upd.phase = "file" /\ upd.src = "file") => upd.apiStored = 0
      /\ (PortfolioInsert /\ upd.phase = "api") => upd.src = "api" ]_vars

\* ======================================================= mapBucket alone
\* the type and Category texts a source row may carry; Undefined is a row
\* without the field
TypeTexts ==
  {Undefined, "", "Equity", "Private Equity", "PRIVATE EQUITY FUND", "Stock", "Bond",
   "High Yield", "Gold", "Bitcoin", "Cash", "Real Estate", "Private Credit",
   "Infrastructure", "Co-Invest", "Hedge Fund"}
BucketRows == [type : TypeTexts, Category : TypeTexts]

\* fetchPortfolio.ts:97: (row.type || row.Category || '').toLowerCase()
typeOf(row) == toLowerCase(OrElse(OrElse(row.type, row.Category), ""))

\* fetchPortfolio.ts:55 and 85: mapBucket(row) is called with a source row
callMapBucket(row) ==
  /\ lastCall' = [op |-> "mapBucket", row |-> row, type |-> typeOf(row),
                  result |-> mapBucket(row)]
  /\ UNCHANGED <<storeVars, calls, lastPos, ingestVars>>

InitBucket == Init /\ ~addepar /\ dbModule = ModFull
NextBucket == \E row \in BucketRows : callMapBucket(row)
SpecBucket == InitBucket /\ [][NextBucket]_vars

\* fetchPortfolio.ts:98-107: the rules in the listed order; the sixth is the
\* pattern private.*equity
BucketRules == <<
  [any |-> {"stock", "equity", "eafe", "em", "us"}, bucket |-> "Liquid - Equities"],
  [any |-> {"bond", "fixed", "ig", "hy", "em debt"}, bucket |-> "Liquid - Fixed Income"],
  [any |-> {"commodity", "gold", "oil"}, bucket |-> "Liquid - Commodities"],
  [any |-> {"crypto", "bitcoin", "ethereum"}, bucket |-> "Liquid - Crypto"],
  [any |-> {"cash", "money market"}, bucket |-> "Liquid - Cash"],
  [any |-> {}, bucket |-> "Illiquid - Private Equity"],
  [any |-> {"real assets", "real estate"}, bucket |-> "Illiquid - Private Real Assets"],
  [any |-> {"credit"}, bucket |-> "Illiquid - Private Credit"],
  [any |-> {"infrastructure"}, bucket |-> "Illiquid - Infrastructure"],
  [any |-> {"co-invest"}, bucket |-> "Illiquid - Co-Invests"] >>
RuleMatches(k, type) ==
  IF k = 6 THEN HasThen(type, "private", "equity") ELSE HasAny(type, BucketRules[k].any)
FirstRule(type) ==
  LET hits == {k \in DOMAIN BucketRules : RuleMatches(k, type)}
  IN IF hits = {} THEN "Other"
     ELSE BucketRules[CHOOSE k \in hits : \A j \in hits : k <= j].bucket
\* the labels mapBucket returns for the rows of BucketRows
ReturnedLabels == {mapBucket(row) : row \in BucketRows}

\* C27: mapBucket returns the bucket of the first rule, in the listed order,
\* whose pattern occurs in the lower-cased type/Category of the row, and
\* 'Other' when none does; every label listed in mapBucket is returned for
\* some input, and an asset class containing 'private equity' is classified
\* as 'Illiquid - Private Equity'.
C27_MapBucket ==
  lastCall.op = "mapBucket" =>
    /\ lastCall.result = FirstRule(lastCall.type)
    /\ BucketLabels \subseteq ReturnedLabels
    /\ Has(lastCall.type, "private equity") => lastCall.result = "Illiquid - Private Equity"

\* the result is the bucket of the first matching rule, or 'Other'
C27_MapBucket_firstRule ==
  lastCall.op = "mapBucket" => lastCall.result = FirstRule(lastCall.type)

\* every label but 'Illiquid - Private Equity' is returned for some row; a
\* text in which 'equity' follows 'private' contains 'equity', which the
\* first rule takes
C27_MapBucket_otherLabels ==
  lastCall.op = "mapBucket" =>
    /\ ReturnedLabels = BucketLabels \ {"Illiquid - Private Equity"}
    /\ HasThen(lastCall.type, "private", "equity") => lastCall.result = "Liquid - Equities"

\* ================================================== the steps of one run
\* cron.ts:18-24: the steps of updateAll in program order
StepOrder ==
  <<"fetchMarkets", "fetchEconomic", "fetchPrivateEquity", "fetchPortfolio", "computeRisk">>
StepIndex(pc) == CHOOSE k \in DOMAIN StepOrder : StepOrder[k] = pc
IsStep(pc) == \E k \in DOMAIN StepOrder : StepOrder[k] = pc
\* the step of upd.pc returned: its run entry is recorded as completed
StepCompleted ==
  /\ Len(hist'[upd.pc]) = Len(hist[upd.pc]) + 1
  /\ hist'[upd.pc][Len(hist'[upd.pc])].ok
  /\ thrown' = thrown /\ thrown.fn = "none"

\* C28: within one updateAll run the steps execute in the order fetchMarkets,
\* fetchEconomic, fetchPrivateEquity, fetchPortfolio, computeRisk, each
\* starting only after the previous one completed; when a step throws, every
\* later step of the run is skipped, so computeRisk writes risk rows only in
\* runs where fetchPortfolio completed without error.
C28_StepsInOrder ==
  [][ /\ (upd'.pc # upd.pc /\ IsStep(upd'.pc)) =>
           IF upd'.pc = "fetchMarkets" THEN upd.pc = "idle"
           ELSE /\ upd.pc = StepOrder[StepIndex(upd'.pc) - 1]
                /\ StepCompleted
      /\ (upd'.pc # upd.pc /\ upd.pc = "catch") => upd'.pc = "idle"
      /\ (upd'.pc = "catch" /\ upd.pc # "catch") => IsStep(upd.pc)
      /\ thrown'.fn # "none" => upd'.pc \in {"catch", "idle"}
      /\ risk_measures' # risk_measures => upd.pc = "computeRisk" ]_vars

\* one run went through all five steps and wrote risk rows; the next run
\* failed in fetchEconomic and was ended there: fetchPrivateEquity,
\* fetchPortfolio and computeRisk ran once only
C28_Witness ==
  /\ upd.pc = "idle" /\ thrown.fn = "fetchEconomic"
  /\ Len(hist["fetchMarkets"]) = 2 /\ Len(hist["fetchEconomic"]) = 2
  /\ Len(hist["fetchPrivateEquity"]) = 1 /\ Len(hist["fetchPortfolio"]) = 1
  /\ hist["fetchPortfolio"][1].ok
  /\ risk_measures # << >>
  /\ \A i \in DOMAIN risk_measures : risk_measures[i].as_of_date = DateOf(hist["fetchPortfolio"][1].last)

\* ===================================================== lastUpdate in time
\* a <= b on lastUpdate values, null being before every timestamp
LastUpdateLE(a, b) == a = None \/ (b # None /\ a[1] <= b[1])
NothingIngested == markets = << >> /\ economics = << >> /\ pe_metrics = << >>

\* C29: for any interleaving of ingestion runs and API reads under a
\* non-decreasing clock, the lastUpdate of successive API responses never
\* decreases, and it is null exactly until the first row is written to
\* markets, economics or pe_metrics.  Every route answers with the value of
\* getLastUpdate() at the time of the request (server.ts:46-75).
C29_LastUpdateMonotone ==
  [][ LET earlier == getLastUpdate
          later == getLastUpdate'
      IN /\ LastUpdateLE(earlier, later)
         /\ (earlier = None) <=> NothingIngested
         /\ (later = None) <=> NothingIngested' ]_vars

\* a response during the second run carries a later lastUpdate than the
\* responses after the first run did, while rows of the first run are stored
C29_Witness ==
  /\ runs = 2 /\ upd.pc = "fetchEconomic"
  /\ getLastUpdate = Some(2)
  /\ \E i \in DOMAIN pe_metrics : pe_metrics[i].timestamp = 1
  /\ \A i \in DOMAIN economics : economics[i].timestamp = 1

\* ========================================================= the dashboard
\* index.tsx:91-126.  A request of fetchData ends in one of three ways:
\* fetch rejects (no connection), res.json() rejects (the body is not JSON),
\* or the body parses.  fetchData never looks at the HTTP status, so an
\* error answer with a JSON body parses like any other.  A parsed body is
\* null or an object that may lack data and lastUpdate.
MaxVersion == 2
MaxStamp == 2
Endpoints == <<"markets", "economics", "pe", "commentary", "portfolio", "risk">>
Response(kind, httpOk, isNull, hasData, v, lastUpdate) ==
  [kind |-> kind, httpOk |-> httpOk, isNull |-> isNull, hasData |-> hasData, v |-> v,
   lastUpdate |-> lastUpdate]
\* the answers of the server of server.ts:43-76: { data, lastUpdate }
OkResponses ==
  {Response("json", TRUE, FALSE, TRUE, v, lu) :
     v \in 1..MaxVersion, lu \in {None} \cup {Some(t) : t \in 1..MaxStamp}}
NoAnswer == Response("rejected", FALSE, FALSE, FALSE, 0, None)
Unparsable == Response("unparsable", FALSE, FALSE, FALSE, 0, None)
\* status 500 with the body {"error": "..."}: no data, no lastUpdate
ErrorJson == Response("json", FALSE, FALSE, FALSE, 0, None)
\* status 200 with the body null
NullJson == Response("json", TRUE, TRUE, FALSE, 0, None)
Responses == OkResponses \cup {NoAnswer, Unparsable, ErrorJson, NullJson}
\* the six answers of one refresh: those of one state of the server, of which
\* at most one request goes another way
Rounds ==
  {[k \in DOMAIN Endpoints |-> IF k = odd THEN r ELSE base] :
     base \in OkResponses, odd \in DOMAIN Endpoints, r \in Responses}

\* xRes.data || [] (index.tsx:103-108); the rows of version v of an endpoint
DataOf(k, r) == IF r.hasData THEN << [endpoint |-> Endpoints[k], v |-> r.v] >> ELSE << >>
\* cRes.commentary (index.tsx:106)
CommentaryOf(r) == IF r.hasData THEN "commentary " \o ToString(r.v) ELSE Undefined
\* index.tsx:110-121: the lastUpdate values that are truthy, sorted; the last
\* one is set, and nothing is set when there is none
LastUpdateOf(h, res) ==
  LET times == {res[k].lastUpdate[1] : k \in {j \in DOMAIN res : res[j].lastUpdate # None}}
  IN IF times # {} THEN Some(MaxOf(times)) ELSE h.lastUpdate

\* index.tsx:91-126: the state of Home after fetchData got the answers res.
\* Promise.all rejects when one request does, and the catch sets nothing;
\* otherwise the setters run in program order, and reading a property of a
\* null body throws: the setters before it have run, the later ones have not
AfterFetchData(h, res) ==
  IF \E k \in DOMAIN res : res[k].kind # "json" THEN h
  ELSE LET nulls == {k \in DOMAIN res : res[k].isNull}
           stop == IF nulls = {} THEN Len(res) + 1
                   ELSE CHOOSE k \in nulls : \A j \in nulls : k <= j
       IN [markets |-> IF 1 < stop THEN DataOf(1, res[1]) ELSE h.markets,
           economics |-> IF 2 < stop THEN DataOf(2, res[2]) ELSE h.economics,
           peMetrics |-> IF 3 < stop THEN DataOf(3, res[3]) ELSE h.peMetrics,
           commentary |-> IF 4 < stop THEN CommentaryOf(res[4]) ELSE h.commentary,
           positions |-> IF 5 < stop THEN DataOf(5, res[5]) ELSE h.positions,
           risk |-> IF 6 < stop THEN DataOf(6, res[6]) ELSE h.risk,
           lastUpdate |-> IF nulls = {} THEN LastUpdateOf(h, res) ELSE h.lastUpdate]

\* index.tsx:128-133: fetchData runs on mount and every two hours
fetchData ==
  /\ \E res \in Rounds : home' = AfterFetchData(home, res)
  /\ UNCHANGED <<storeVars, histVars, clock, uuids, upd, runs, thrown, hist, addepar, tasks>>

InitDashboard == Init /\ ~addepar /\ dbModule = ModFull
NextDashboard == fetchData
SpecDashboard == InitDashboard /\ [][NextDashboard]_vars

\* a request failed: no answer, an answer that is not JSON, or an HTTP error
Failed(r) == r.kind # "json" \/ ~r.httpOk
\* all of the state replaced by the answers
Replaced(h, res) ==
  [markets |-> DataOf(1, res[1]), economics |-> DataOf(2, res[2]),
   peMetrics |-> DataOf(3, res[3]), commentary |-> CommentaryOf(res[4]),
   positions |-> DataOf(5, res[5]), risk |-> DataOf(6, res[6]),
   lastUpdate |-> LastUpdateOf(h, res)]

\* C30: a dashboard refresh is all-or-nothing: when one of its six requests
\* fails or returns an unparsable body, none of the dashboard state changes;
\* when all succeed, all of it is replaced by the new responses and
\* lastUpdate becomes the greatest lastUpdate among the responses, staying
\* unchanged if every response carries a null lastUpdate.
C30_RefreshAllOrNothing ==
  [][ \A res \in Rounds :
        home' = AfterFetchData(home, res) =>
          IF \E k \in DOMAIN res : Failed(res[k])
            THEN home' = home
            ELSE home' = Replaced(home, res) ]_vars

\* it is so when the failure is a rejected request or a body that is not
\* JSON, and when every body is an object
C30_RefreshAllOrNothing_rejects ==
  \A res \in Rounds :
    /\ (\E k \in DOMAIN res : res[k].kind # "json") => AfterFetchData(home, res) = home
    /\ (\A k \in DOMAIN res : res[k].kind = "json" /\ ~res[k].isNull) =>
         AfterFetchData(home, res) = Replaced(home, res)

====
